---- MODULE Spec2Model ----
(***************************************************************************)
(* ChmStructureBuilder (src/ChmStructureBuilder.py): the incremental       *)
(* builder of the structure -> model -> chain -> residue -> atom hierarchy *)
(* and its duplicate / disorder resolution.                                *)
(*                                                                         *)
(* An entity's child_list is modelled as the sequence of its children's    *)
(* ids and its child_dict as the function from id to child.  A cursor      *)
(* (self.chain, self.residue) is the path of the object it refers to.      *)
(* The state starts after the preamble init_structure, init_model,         *)
(* init_seg: one empty model, no chain, no residue.                        *)
(***************************************************************************)
EXTENDS Integers, Sequences, FiniteSets, TLC

VARIABLES
    model_list,   \* self.model.child_list: chain ids in insertion order
    chains,       \* self.model.child_dict: chain id -> chain
    chain,        \* self.chain: id of the current chain, or NoChain
    residue,      \* self.residue: cursor (unset / None / entry of a chain)
    atom,         \* self.atom: the Atom object made by the last init_atom
    last,         \* the last event: its handler, exception and warnings
    builder,      \* the ChmStructureBuilder instance the attributes above
                  \* belong to (the self of the running method)
    parked,       \* the attributes of the other instance
    alone         \* per instance: its attributes after its own events only

vars == <<model_list, chains, chain, residue, atom, last,
          builder, parked, alone>>

----------------------------------------------------------------------------
(* Bounds of the model *)

\* Residue objects (plain or children of a group) in the whole model
MaxResidues == 3
\* Atom objects (plain or children of a group) in the whole model
MaxAtoms == 3

(* Inputs of the events.  Fields are the hetero flags the parsers pass
   (init_residue's docstring): blank, "W" for water, "H" for hetero.  In
   the full atom names a dot stands for a blank, as in init_atom's comment. *)
ChainIds == {"A", "B"}
ResNames == {"ALA", "SER"}
AllResNames == {"ALA", "SER", "GLY"}
Fields == {" ", "H"}
AllFields == {" ", "W", "H"}
ResSeqs == {1, 2}
ICodes == {" "}
FullNames == {" CA."}
AllFullNames == {" CA.", ".CA "}
AltLocs == {" ", "A"}
AllAltLocs == {" ", "A", "B", "C"}
Occupancies == {1}
AllOccupancies == {1, 2}

\* str.strip() of the full atom name, as the parsers compute the name
Strip(fullname) ==
    CASE fullname = " CA." -> "CA"
      [] fullname = ".CA " -> "CA"
      [] OTHER -> fullname

\* "H_" + resname
HetField(resname) ==
    CASE resname = "ALA" -> "H_ALA"
      [] resname = "SER" -> "H_SER"
      [] resname = "GLY" -> "H_GLY"
      [] OTHER -> "H_"

----------------------------------------------------------------------------
(* Python values *)

NoChain == "<unset>"
NoKey == <<"", 0, "">>
Unset == [st |-> "unset", chain |-> NoChain, key |-> NoKey]
None == [st |-> "none", chain |-> NoChain, key |-> NoKey]
Ref(c, k) == [st |-> "ref", chain |-> c, key |-> k]
NoAtom == [kind |-> "unset"]
EmptyDict == [x \in {} |-> x]

\* PDBConstructionWarning messages
WDiscontinuous == "Chain is discontinuous"
WRedefined == "Residue redefined"
WSameName == "Residue already defined with the same name"
WSpaces == "Atom names differ only in spaces"
WBlankAltloc == "disordered atom found with blank altloc"
\* exceptions: the type, the message and the values formatted into it
Exc(type, msg, args) == [type |-> type, msg |-> msg, args |-> args]
NoExc == Exc("none", "", <<>>)
ExcBlankAltlocs(resname, res_id) ==
    Exc("PDBConstructionException", "Blank altlocs in duplicate residue",
        <<resname, res_id[1], res_id[2], res_id[3]>>)
ExcTwice(id) == Exc("PDBConstructionException", "defined twice", <<id>>)
ExcAttribute(attr) == Exc("AttributeError", "no attribute", <<attr>>)

\* list.remove(x): the first occurrence
RECURSIVE ListRemove(_, _)
ListRemove(s, x) ==
    IF s = <<>> THEN <<>>
    ELSE IF Head(s) = x THEN Tail(s)
    ELSE <<Head(s)>> \o ListRemove(Tail(s), x)

\* d[k] = v
DictSet(d, k, v) == [x \in DOMAIN d \cup {k} |-> IF x = k THEN v ELSE d[x]]
\* del d[k]
DictDel(d, k) == [x \in DOMAIN d \ {k} |-> d[x]]
\* the keys of a dict in insertion order, after d[k] = v
KeysSet(keys, k) ==
    IF \E i \in 1..Len(keys) : keys[i] = k THEN keys ELSE Append(keys, k)

----------------------------------------------------------------------------
(* Bio.PDB.Entity *)

\* Entity.has_id
has_id(ent, id) == id \in DOMAIN ent.child_dict

\* Entity.add, after its has_id check passed
Entity_add(ent, child) ==
    [ent EXCEPT !.child_list = Append(@, child.id),
                !.child_dict = DictSet(@, child.id, child)]

\* Entity.detach_child
detach_child(ent, id) ==
    [ent EXCEPT !.child_list = ListRemove(@, id),
                !.child_dict = DictDel(@, id)]

\* PeptideChain(chain_id), StandardChain(chain_id, ...)
NewChain(cls, chain_id) ==
    [cls |-> cls, id |-> chain_id, child_list |-> <<>>, child_dict |-> EmptyDict]

----------------------------------------------------------------------------
(* init_chain, init_schain *)

\* what an event leaves behind for its caller
Outcome(op, raised, warnings) ==
    [op |-> op, raised |-> raised, warnings |-> warnings]

init_chain_as_always_new(cls, chain_id) ==
    /\ chain' = chain_id
    /\ model_list' = Append(model_list, chain_id)
    /\ chains' = DictSet(chains, chain_id, NewChain(cls, chain_id))
    /\ last' = Outcome("init_chain", NoExc, {})
    /\ UNCHANGED <<residue, atom>>
init_chain_as_clearing_residue(cls, chain_id) ==
    /\ IF chain_id \in DOMAIN chains
       THEN /\ chain' = chain_id
            /\ UNCHANGED <<model_list, chains>>
            /\ last' = Outcome("init_chain", NoExc, {WDiscontinuous})
       ELSE /\ chain' = chain_id
            /\ model_list' = Append(model_list, chain_id)
            /\ chains' = DictSet(chains, chain_id, NewChain(cls, chain_id))
            /\ last' = Outcome("init_chain", NoExc, {})
    /\ residue' = None
    /\ UNCHANGED atom
init_chain_as(cls, chain_id) ==
    /\ IF chain_id \in DOMAIN chains
       THEN /\ chain' = chain_id
            /\ UNCHANGED <<model_list, chains>>
            /\ last' = Outcome("init_chain", NoExc, {WDiscontinuous})
       ELSE /\ chain' = chain_id
            /\ model_list' = Append(model_list, chain_id)
            /\ chains' = DictSet(chains, chain_id, NewChain(cls, chain_id))
            /\ last' = Outcome("init_chain", NoExc, {})
    /\ UNCHANGED <<residue, atom>>

init_chain(chain_id) == init_chain_as("PeptideChain", chain_id)

init_schain(chain_id) == init_chain_as("StandardChain", chain_id)

----------------------------------------------------------------------------
(* Bio.PDB.Residue, Bio.PDB.Atom and the disordered wrappers *)

\* Residue(res_id, resname, self.segid)
NewResidue(res_id, resname) ==
    [kind |-> "Residue", id |-> res_id, resname |-> resname, disordered |-> 0,
     child_list |-> <<>>, child_dict |-> EmptyDict]

\* DisorderedResidue(id), DisorderedAtom(id): no child, nothing selected
NoSelection == "<None>"
NewDisorderedResidue(id) ==
    [kind |-> "DisorderedResidue", id |-> id, keys |-> <<>>,
     child_dict |-> EmptyDict, selected |-> NoSelection]
NewDisorderedAtom(id) ==
    [kind |-> "DisorderedAtom", id |-> id, keys |-> <<>>,
     child_dict |-> EmptyDict, selected |-> NoSelection,
     last_occupancy |-> -2147483647]

\* Atom(name, coord, b_factor, occupancy, altloc, fullname, ...)
NewAtom(name, fullname, altloc, occupancy) ==
    [kind |-> "Atom", id |-> name, fullname |-> fullname, altloc |-> altloc,
     occupancy |-> occupancy, disordered_flag |-> 0]

\* is_disordered(): 2 for a wrapper, the flag for a Residue or an Atom
is_disordered(ent) ==
    IF ent.kind \in {"DisorderedResidue", "DisorderedAtom"} THEN 2
    ELSE IF ent.kind = "Residue" THEN ent.disordered
    ELSE ent.disordered_flag

\* DisorderedEntityWrapper.disordered_has_id, disordered_select
disordered_has_id(w, key) == key \in DOMAIN w.child_dict
disordered_select(w, key) == [w EXCEPT !.selected = key]

DisorderedResidue_disordered_add_unselected(dr, res) ==
    [dr EXCEPT !.keys = KeysSet(@, res.resname),
               !.child_dict = DictSet(@, res.resname, res)]
\* DisorderedResidue.disordered_add: keyed by resname, then selected
DisorderedResidue_disordered_add(dr, res) ==
    disordered_select(
        [dr EXCEPT !.keys = KeysSet(@, res.resname),
                   !.child_dict = DictSet(@, res.resname, res)],
        res.resname)

\* DisorderedAtom.disordered_add: keyed by altloc, selected on a higher
\* occupancy
DisorderedAtom_disordered_add(da, a) ==
    LET a1 == [a EXCEPT !.disordered_flag = 1]
        da1 == [da EXCEPT !.keys = KeysSet(@, a.altloc),
                          !.child_dict = DictSet(@, a.altloc, a1)]
    IN IF a.occupancy > da.last_occupancy
       THEN [disordered_select(da1, a.altloc)
                EXCEPT !.last_occupancy = a.occupancy]
       ELSE da1

\* the selected child of a wrapper (what __getattr__ and __getitem__ reach)
disordered_get(w) == w.child_dict[w.selected]

\* get_fullname() of an Atom, or of a DisorderedAtom's selected child
get_fullname(a) ==
    IF a.kind = "DisorderedAtom" THEN disordered_get(a).fullname
    ELSE a.fullname

\* StructureBuilder._is_completely_disordered: no atom of the unpacked
\* list has a blank altloc
is_completely_disordered(res) ==
    \A k \in DOMAIN res.child_dict :
        LET a == res.child_dict[k]
        IN IF a.kind = "DisorderedAtom"
           THEN \A l \in DOMAIN a.child_dict : a.child_dict[l].altloc # " "
           ELSE a.altloc # " "

----------------------------------------------------------------------------
(* init_residue and the duplicate / disorder resolution *)

\* the result of a handler on the current chain
Result(ch, cursor, raised, warnings) ==
    [chain |-> ch, residue |-> cursor, raised |-> raised,
     warnings |-> warnings]

\* PeptideChain.find_het_by_seq: the ids of the residues of the chain with
\* this sequence number, in chain order
find_het_by_seq(ch, resseq) ==
    SelectSeq(ch.child_list, LAMBDA id : id[2] = resseq)

\* the residue in the chain is a DisorderedResidue: select the child of
\* this name, or add a new Residue to it
add_to_disordered_res_keeping_selection(ch, dup_id, res_id, resname) ==
    LET dup == ch.child_dict[dup_id]
    IN IF disordered_has_id(dup, resname)
       THEN Result([ch EXCEPT !.child_dict[dup_id] =
                       disordered_select(dup, resname)],
                   Ref(ch.id, dup_id), NoExc, {})
       ELSE Result([ch EXCEPT !.child_dict[dup_id] =
                       [dup EXCEPT !.keys = KeysSet(@, resname),
                                   !.child_dict = DictSet(
                                       @, resname,
                                       NewResidue(res_id, resname))]],
                   Ref(ch.id, dup_id), NoExc, {})
add_to_disordered_res_replacing_known(ch, dup_id, res_id, resname) ==
    LET dup == ch.child_dict[dup_id]
    IN Result([ch EXCEPT !.child_dict[dup_id] =
                  DisorderedResidue_disordered_add(
                      dup, NewResidue(res_id, resname))],
              Ref(ch.id, dup_id), NoExc, {})
add_to_disordered_res(ch, dup_id, res_id, resname) ==
    LET dup == ch.child_dict[dup_id]
    IN IF disordered_has_id(dup, resname)
       THEN Result([ch EXCEPT !.child_dict[dup_id] =
                       disordered_select(dup, resname)],
                   Ref(ch.id, dup_id), NoExc, {})
       ELSE Result([ch EXCEPT !.child_dict[dup_id] =
                       DisorderedResidue_disordered_add(
                           dup, NewResidue(res_id, resname))],
                   Ref(ch.id, dup_id), NoExc, {})

\* not disordered, but resname and id already exist
reuse_residue_emptied(ch, dup_id) ==
    Result([ch EXCEPT !.child_dict[dup_id].child_list = <<>>,
                      !.child_dict[dup_id].child_dict = EmptyDict],
           Ref(ch.id, dup_id), NoExc, {WSameName})
reuse_residue(ch, dup_id) ==
    Result(ch, Ref(ch.id, dup_id), NoExc, {WSameName})

\* blank altlocs in the duplicate residue
reject_duplicate_keeping_cursor(ch, dup_id, res_id, resname) ==
    Result(ch, Ref(ch.id, dup_id), ExcBlankAltlocs(resname, res_id), {})
reject_duplicate(ch, dup_id, res_id, resname) ==
    Result(ch, None, ExcBlankAltlocs(resname, res_id), {})

\* a new DisorderedResidue replaces the duplicate and holds it and the new
\* Residue
new_disordered_res_dropping_old(ch, dup_id, res_id, resname) ==
    LET dup == ch.child_dict[dup_id]
        ch1 == detach_child(ch, dup.id)
        dr == NewDisorderedResidue(dup.id)
        ch2 == Entity_add(ch1, dr)
        dr2 == DisorderedResidue_disordered_add(
                   dr, NewResidue(res_id, resname))
    IN Result([ch2 EXCEPT !.child_dict[dr.id] = dr2],
              Ref(ch.id, dr.id), NoExc, {})
new_disordered_res_keyed_by_new(ch, dup_id, res_id, resname) ==
    LET dup == ch.child_dict[dup_id]
        ch1 == detach_child(ch, dup.id)
        dr == NewDisorderedResidue(res_id)
        ch2 == Entity_add(ch1, dr)
        dr1 == DisorderedResidue_disordered_add(dr, dup)
        dr2 == DisorderedResidue_disordered_add(
                   dr1, NewResidue(res_id, resname))
    IN Result([ch2 EXCEPT !.child_dict[dr.id] = dr2],
              Ref(ch.id, dr.id), NoExc, {})
new_disordered_res_copying_old(ch, dup_id, res_id, resname) ==
    LET dup == ch.child_dict[dup_id]
        ch1 == detach_child(ch, dup.id)
        dr == NewDisorderedResidue(dup.id)
        ch2 == Entity_add(ch1, dr)
        dr1 == DisorderedResidue_disordered_add(
                   dr, NewResidue(dup.id, dup.resname))
        dr2 == DisorderedResidue_disordered_add(
                   dr1, NewResidue(res_id, resname))
    IN Result([ch2 EXCEPT !.child_dict[dr.id] = dr2],
              Ref(ch.id, dr.id), NoExc, {})
new_disordered_res_selecting_old(ch, dup_id, res_id, resname) ==
    LET dup == ch.child_dict[dup_id]
        ch1 == detach_child(ch, dup.id)
        dr == NewDisorderedResidue(dup.id)
        ch2 == Entity_add(ch1, dr)
        dr1 == DisorderedResidue_disordered_add(
                   dr, NewResidue(res_id, resname))
        dr2 == DisorderedResidue_disordered_add(dr1, dup)
    IN Result([ch2 EXCEPT !.child_dict[dr.id] = dr2],
              Ref(ch.id, dr.id), NoExc, {})
new_disordered_res_without_detach(ch, dup_id, res_id, resname) ==
    LET dup == ch.child_dict[dup_id]
        dr == NewDisorderedResidue(dup.id)
        ch2 == Entity_add(ch, dr)
        dr1 == DisorderedResidue_disordered_add(dr, dup)
        dr2 == DisorderedResidue_disordered_add(
                   dr1, NewResidue(res_id, resname))
    IN Result([ch2 EXCEPT !.child_dict[dr.id] = dr2],
              Ref(ch.id, dr.id), NoExc, {})
new_disordered_res_in_place(ch, dup_id, res_id, resname) ==
    LET dup == ch.child_dict[dup_id]
        dr == NewDisorderedResidue(dup.id)
        dr1 == DisorderedResidue_disordered_add(dr, dup)
        dr2 == DisorderedResidue_disordered_add(
                   dr1, NewResidue(res_id, resname))
    IN Result([ch EXCEPT !.child_dict[dr.id] = dr2],
              Ref(ch.id, dr.id), NoExc, {})
new_disordered_res(ch, dup_id, res_id, resname) ==
    LET dup == ch.child_dict[dup_id]
        ch1 == detach_child(ch, dup.id)
        dr == NewDisorderedResidue(dup.id)
        ch2 == Entity_add(ch1, dr)
        dr1 == DisorderedResidue_disordered_add(dr, dup)
        dr2 == DisorderedResidue_disordered_add(
                   dr1, NewResidue(res_id, resname))
    IN Result([ch2 EXCEPT !.child_dict[dr.id] = dr2],
              Ref(ch.id, dr.id), NoExc, {})

process_disordered_res(ch, dup_id, res_id, resname) ==
    LET dup == ch.child_dict[dup_id]
    IN IF is_disordered(dup) = 2
       THEN add_to_disordered_res(ch, dup_id, res_id, resname)
       ELSE IF resname = dup.resname
       THEN reuse_residue(ch, dup_id)
       ELSE IF ~is_completely_disordered(dup)
       THEN reject_duplicate(ch, dup_id, res_id, resname)
       ELSE new_disordered_res(ch, dup_id, res_id, resname)

process_duplicate_res(ch, res_id, resname) ==
    LET r == process_disordered_res(ch, res_id, res_id, resname)
    IN [r EXCEPT !.warnings = @ \cup {WRedefined}]

process_duplicate_het_first_entry(ch, res_id, resname) ==
    process_disordered_res(ch, ch.child_list[1], res_id, resname)
process_duplicate_het(ch, res_id, resname) ==
    LET het_res_id == find_het_by_seq(ch, res_id[2])[1]
    IN process_disordered_res(ch, het_res_id, res_id, resname)

\* the hetero field of the residue id
res_field_rewriting_water(field, resname) ==
    IF field # " " THEN HetField(resname) ELSE field
res_field(field, resname) ==
    IF field # " "
    THEN IF field = "H" THEN HetField(resname) ELSE field
    ELSE field

init_residue_on_without_add(ch, resname, field, resseq, icode) ==
    LET res_id == <<res_field(field, resname), resseq, icode>>
    IN IF has_id(ch, res_id)
       THEN process_duplicate_res(ch, res_id, resname)
       ELSE IF Len(find_het_by_seq(ch, resseq)) > 0
       THEN process_duplicate_het(ch, res_id, resname)
       ELSE Result(ch, Ref(ch.id, res_id), NoExc, {})
init_residue_on_lookup_first(ch, resname, field, resseq, icode) ==
    LET res_id == <<res_field(field, resname), resseq, icode>>
    IN IF Len(find_het_by_seq(ch, resseq)) > 0
       THEN process_duplicate_het(ch, res_id, resname)
       ELSE IF has_id(ch, res_id)
       THEN process_duplicate_res(ch, res_id, resname)
       ELSE Result(Entity_add(ch, NewResidue(res_id, resname)),
                   Ref(ch.id, res_id), NoExc, {})
init_residue_on(ch, resname, field, resseq, icode) ==
    LET res_id == <<res_field(field, resname), resseq, icode>>
    IN IF has_id(ch, res_id)
       THEN process_duplicate_res(ch, res_id, resname)
       ELSE IF Len(find_het_by_seq(ch, resseq)) > 0
       THEN process_duplicate_het(ch, res_id, resname)
       ELSE Result(Entity_add(ch, NewResidue(res_id, resname)),
                   Ref(ch.id, res_id), NoExc, {})

\* the Residue objects of an entry of a chain, of a chain, of the model
EntryResidues(e) ==
    IF e.kind = "DisorderedResidue" THEN Cardinality(DOMAIN e.child_dict)
    ELSE 1
RECURSIVE ChainResidues(_, _)
ChainResidues(keys, d) ==
    IF keys = <<>> THEN 0
    ELSE EntryResidues(d[Head(keys)]) + ChainResidues(Tail(keys), d)
RECURSIVE ModelResidues(_, _)
ModelResidues(ids, chs) ==
    IF ids = <<>> THEN 0
    ELSE ChainResidues(chs[Head(ids)].child_list, chs[Head(ids)].child_dict)
         + ModelResidues(Tail(ids), chs)

init_residue(resname, field, resseq, icode) ==
    /\ ModelResidues(model_list, chains) < MaxResidues
    /\ IF chain = NoChain
       THEN /\ last' = Outcome("init_residue", ExcAttribute("chain"), {})
            /\ UNCHANGED <<chains, residue>>
       ELSE LET r == init_residue_on(chains[chain], resname, field,
                                     resseq, icode)
            IN /\ chains' = [chains EXCEPT ![chain] = r.chain]
               /\ residue' = r.residue
               /\ last' = Outcome("init_residue", r.raised, r.warnings)
    /\ UNCHANGED <<model_list, chain, atom>>

----------------------------------------------------------------------------
(* finish_chain_construction *)

\* the last child, in dict order, whose id is the group's id is selected
\* mutants of the reset: stop at the first match; leave the selection alone
reset_from_first_match(dr, keys) ==
    LET m == {i \in 1..Len(keys) : dr.child_dict[keys[i]].id = dr.id}
    IN IF m = {} THEN dr
       ELSE disordered_select(
                dr, keys[CHOOSE i \in m : \A j \in m : i <= j])
reset_disordered_res_skipped(dr) == dr

RECURSIVE reset_from(_, _)
reset_from(dr, keys) ==
    IF keys = <<>> THEN dr
    ELSE reset_from(
            IF dr.child_dict[Head(keys)].id = dr.id
            THEN disordered_select(dr, Head(keys))
            ELSE dr,
            Tail(keys))

reset_disordered_res_keeping_match(dr) ==
    IF dr.child_dict[dr.selected].id = dr.id THEN dr
    ELSE reset_from(dr, dr.keys)
reset_disordered_res(dr) == reset_from(dr, dr.keys)

\* PeptideChain.update: recomputes attributes derived from the residues
update(ch) == ch

finish_chain_on(ch) ==
    update([ch EXCEPT !.child_dict =
        [k \in DOMAIN @ |->
            IF @[k].kind = "DisorderedResidue"
            THEN reset_disordered_res(@[k])
            ELSE @[k]]])

finish_every_chain ==
    /\ IF chain = NoChain
       THEN UNCHANGED chains
       ELSE chains' = [c \in DOMAIN chains |-> finish_chain_on(chains[c])]
    /\ last' = Outcome("finish_chain_construction", NoExc, {})
    /\ UNCHANGED <<model_list, chain, residue, atom>>
finish_chain_construction ==
    /\ IF chain = NoChain
       THEN UNCHANGED chains
       ELSE chains' = [chains EXCEPT ![chain] = finish_chain_on(@)]
    /\ last' = Outcome("finish_chain_construction", NoExc, {})
    /\ UNCHANGED <<model_list, chain, residue, atom>>

----------------------------------------------------------------------------
(* init_atom *)

\* the result of init_atom on the entry the residue cursor refers to
AtomResult(e, a, raised, warnings) ==
    [entry |-> e, atom |-> a, raised |-> raised, warnings |-> warnings]

init_atom_on_dropping_duplicate(e, name0, fullname, altloc, occupancy) ==
    LET grp == e.kind = "DisorderedResidue"
        \* has_id, [], detach_child, flag_disordered of a group reach its
        \* selected child
        res == IF grp THEN disordered_get(e) ELSE e
        Put(r) == IF grp THEN [e EXCEPT !.child_dict[e.selected] = r] ELSE r
        collide == /\ has_id(res, name0)
                   /\ get_fullname(res.child_dict[name0]) # fullname
        name == IF collide THEN fullname ELSE name0
        w == IF collide THEN {WSpaces} ELSE {}
        a == NewAtom(name, fullname, altloc, occupancy)
        a1 == [a EXCEPT !.disordered_flag = 1]
    IN IF altloc # " "
       THEN IF has_id(res, name)
            THEN LET dup == res.child_dict[name]
                 IN IF is_disordered(dup) = 2
                    THEN AtomResult(
                            Put([res EXCEPT !.child_dict[name] =
                                    DisorderedAtom_disordered_add(dup, a)]),
                            a1, NoExc, w)
                    ELSE LET res1 == detach_child(res, name)
                             da == NewDisorderedAtom(name)
                             res2 == Entity_add(res1, da)
                             da1 == DisorderedAtom_disordered_add(da, a)
                             da2 == da1
                         IN AtomResult(
                                Put([res2 EXCEPT !.child_dict[name] = da2,
                                                 !.disordered = 1]),
                                a1, NoExc, w \cup {WBlankAltloc})
            ELSE LET da == NewDisorderedAtom(name)
                     res1 == Entity_add(res, da)
                     da1 == DisorderedAtom_disordered_add(da, a)
                 IN AtomResult(
                        Put([res1 EXCEPT !.child_dict[name] = da1,
                                         !.disordered = 1]),
                        a1, NoExc, w)
       ELSE IF has_id(res, name)
            \* Residue.add: the atom is defined twice
            THEN AtomResult(e, a, ExcTwice(name), w)
            \* DisorderedResidue.add: added to the selected child, then raises
            ELSE IF grp
            THEN AtomResult(Put(Entity_add(res, a)), a,
                            ExcBlankAltlocs(res.resname, res.id), w)
            ELSE AtomResult(Put(Entity_add(res, a)), a, NoExc, w)

init_atom_on_without_detach(e, name0, fullname, altloc, occupancy) ==
    LET grp == e.kind = "DisorderedResidue"
        \* has_id, [], detach_child, flag_disordered of a group reach its
        \* selected child
        res == IF grp THEN disordered_get(e) ELSE e
        Put(r) == IF grp THEN [e EXCEPT !.child_dict[e.selected] = r] ELSE r
        collide == /\ has_id(res, name0)
                   /\ get_fullname(res.child_dict[name0]) # fullname
        name == IF collide THEN fullname ELSE name0
        w == IF collide THEN {WSpaces} ELSE {}
        a == NewAtom(name, fullname, altloc, occupancy)
        a1 == [a EXCEPT !.disordered_flag = 1]
    IN IF altloc # " "
       THEN IF has_id(res, name)
            THEN LET dup == res.child_dict[name]
                 IN IF is_disordered(dup) = 2
                    THEN AtomResult(
                            Put([res EXCEPT !.child_dict[name] =
                                    DisorderedAtom_disordered_add(dup, a)]),
                            a1, NoExc, w)
                    ELSE LET res1 == res
                             da == NewDisorderedAtom(name)
                             res2 == Entity_add(res1, da)
                             da1 == DisorderedAtom_disordered_add(da, a)
                             da2 == DisorderedAtom_disordered_add(da1, dup)
                         IN AtomResult(
                                Put([res2 EXCEPT !.child_dict[name] = da2,
                                                 !.disordered = 1]),
                                a1, NoExc, w \cup {WBlankAltloc})
            ELSE LET da == NewDisorderedAtom(name)
                     res1 == Entity_add(res, da)
                     da1 == DisorderedAtom_disordered_add(da, a)
                 IN AtomResult(
                        Put([res1 EXCEPT !.child_dict[name] = da1,
                                         !.disordered = 1]),
                        a1, NoExc, w)
       ELSE IF has_id(res, name)
            \* Residue.add: the atom is defined twice
            THEN AtomResult(e, a, ExcTwice(name), w)
            \* DisorderedResidue.add: added to the selected child, then raises
            ELSE IF grp
            THEN AtomResult(Put(Entity_add(res, a)), a,
                            ExcBlankAltlocs(res.resname, res.id), w)
            ELSE AtomResult(Put(Entity_add(res, a)), a, NoExc, w)

init_atom_on_empty_group(e, name0, fullname, altloc, occupancy) ==
    LET grp == e.kind = "DisorderedResidue"
        \* has_id, [], detach_child, flag_disordered of a group reach its
        \* selected child
        res == IF grp THEN disordered_get(e) ELSE e
        Put(r) == IF grp THEN [e EXCEPT !.child_dict[e.selected] = r] ELSE r
        collide == /\ has_id(res, name0)
                   /\ get_fullname(res.child_dict[name0]) # fullname
        name == IF collide THEN fullname ELSE name0
        w == IF collide THEN {WSpaces} ELSE {}
        a == NewAtom(name, fullname, altloc, occupancy)
        a1 == [a EXCEPT !.disordered_flag = 1]
    IN IF altloc # " "
       THEN IF has_id(res, name)
            THEN LET dup == res.child_dict[name]
                 IN IF is_disordered(dup) = 2
                    THEN AtomResult(
                            Put([res EXCEPT !.child_dict[name] =
                                    DisorderedAtom_disordered_add(dup, a)]),
                            a1, NoExc, w)
                    ELSE LET res1 == detach_child(res, name)
                             da == NewDisorderedAtom(name)
                             res2 == Entity_add(res1, da)
                             da1 == DisorderedAtom_disordered_add(da, a)
                             da2 == DisorderedAtom_disordered_add(da1, dup)
                         IN AtomResult(
                                Put([res2 EXCEPT !.child_dict[name] = da2,
                                                 !.disordered = 1]),
                                a1, NoExc, w \cup {WBlankAltloc})
            ELSE LET da == NewDisorderedAtom(name)
                     res1 == Entity_add(res, da)
                     da1 == da
                 IN AtomResult(
                        Put([res1 EXCEPT !.child_dict[name] = da1,
                                         !.disordered = 1]),
                        a1, NoExc, w)
       ELSE IF has_id(res, name)
            \* Residue.add: the atom is defined twice
            THEN AtomResult(e, a, ExcTwice(name), w)
            \* DisorderedResidue.add: added to the selected child, then raises
            ELSE IF grp
            THEN AtomResult(Put(Entity_add(res, a)), a,
                            ExcBlankAltlocs(res.resname, res.id), w)
            ELSE AtomResult(Put(Entity_add(res, a)), a, NoExc, w)

init_atom_on_without_rewrite(e, name0, fullname, altloc, occupancy) ==
    LET grp == e.kind = "DisorderedResidue"
        \* has_id, [], detach_child, flag_disordered of a group reach its
        \* selected child
        res == IF grp THEN disordered_get(e) ELSE e
        Put(r) == IF grp THEN [e EXCEPT !.child_dict[e.selected] = r] ELSE r
        collide == /\ has_id(res, name0)
                   /\ get_fullname(res.child_dict[name0]) # fullname
        name == name0
        w == IF collide THEN {WSpaces} ELSE {}
        a == NewAtom(name, fullname, altloc, occupancy)
        a1 == [a EXCEPT !.disordered_flag = 1]
    IN IF altloc # " "
       THEN IF has_id(res, name)
            THEN LET dup == res.child_dict[name]
                 IN IF is_disordered(dup) = 2
                    THEN AtomResult(
                            Put([res EXCEPT !.child_dict[name] =
                                    DisorderedAtom_disordered_add(dup, a)]),
                            a1, NoExc, w)
                    ELSE LET res1 == detach_child(res, name)
                             da == NewDisorderedAtom(name)
                             res2 == Entity_add(res1, da)
                             da1 == DisorderedAtom_disordered_add(da, a)
                             da2 == DisorderedAtom_disordered_add(da1, dup)
                         IN AtomResult(
                                Put([res2 EXCEPT !.child_dict[name] = da2,
                                                 !.disordered = 1]),
                                a1, NoExc, w \cup {WBlankAltloc})
            ELSE LET da == NewDisorderedAtom(name)
                     res1 == Entity_add(res, da)
                     da1 == DisorderedAtom_disordered_add(da, a)
                 IN AtomResult(
                        Put([res1 EXCEPT !.child_dict[name] = da1,
                                         !.disordered = 1]),
                        a1, NoExc, w)
       ELSE IF has_id(res, name)
            \* Residue.add: the atom is defined twice
            THEN AtomResult(e, a, ExcTwice(name), w)
            \* DisorderedResidue.add: added to the selected child, then raises
            ELSE IF grp
            THEN AtomResult(Put(Entity_add(res, a)), a,
                            ExcBlankAltlocs(res.resname, res.id), w)
            ELSE AtomResult(Put(Entity_add(res, a)), a, NoExc, w)

init_atom_on_existing_first(e, name0, fullname, altloc, occupancy) ==
    LET grp == e.kind = "DisorderedResidue"
        \* has_id, [], detach_child, flag_disordered of a group reach its
        \* selected child
        res == IF grp THEN disordered_get(e) ELSE e
        Put(r) == IF grp THEN [e EXCEPT !.child_dict[e.selected] = r] ELSE r
        collide == /\ has_id(res, name0)
                   /\ get_fullname(res.child_dict[name0]) # fullname
        name == IF collide THEN fullname ELSE name0
        w == IF collide THEN {WSpaces} ELSE {}
        a == NewAtom(name, fullname, altloc, occupancy)
        a1 == [a EXCEPT !.disordered_flag = 1]
    IN IF altloc # " "
       THEN IF has_id(res, name)
            THEN LET dup == res.child_dict[name]
                 IN IF is_disordered(dup) = 2
                    THEN AtomResult(
                            Put([res EXCEPT !.child_dict[name] =
                                    DisorderedAtom_disordered_add(dup, a)]),
                            a1, NoExc, w)
                    ELSE LET res1 == detach_child(res, name)
                             da == NewDisorderedAtom(name)
                             res2 == Entity_add(res1, da)
                             da1 == DisorderedAtom_disordered_add(da, dup)
                             da2 == DisorderedAtom_disordered_add(da1, a)
                         IN AtomResult(
                                Put([res2 EXCEPT !.child_dict[name] = da2,
                                                 !.disordered = 1]),
                                a1, NoExc, w \cup {WBlankAltloc})
            ELSE LET da == NewDisorderedAtom(name)
                     res1 == Entity_add(res, da)
                     da1 == DisorderedAtom_disordered_add(da, a)
                 IN AtomResult(
                        Put([res1 EXCEPT !.child_dict[name] = da1,
                                         !.disordered = 1]),
                        a1, NoExc, w)
       ELSE IF has_id(res, name)
            \* Residue.add: the atom is defined twice
            THEN AtomResult(e, a, ExcTwice(name), w)
            \* DisorderedResidue.add: added to the selected child, then raises
            ELSE IF grp
            THEN AtomResult(Put(Entity_add(res, a)), a,
                            ExcBlankAltlocs(res.resname, res.id), w)
            ELSE AtomResult(Put(Entity_add(res, a)), a, NoExc, w)

init_atom_on_rewriting_duplicates(e, name0, fullname, altloc, occupancy) ==
    LET grp == e.kind = "DisorderedResidue"
        \* has_id, [], detach_child, flag_disordered of a group reach its
        \* selected child
        res == IF grp THEN disordered_get(e) ELSE e
        Put(r) == IF grp THEN [e EXCEPT !.child_dict[e.selected] = r] ELSE r
        collide == has_id(res, name0)
        name == IF collide THEN fullname ELSE name0
        w == IF collide THEN {WSpaces} ELSE {}
        a == NewAtom(name, fullname, altloc, occupancy)
        a1 == [a EXCEPT !.disordered_flag = 1]
    IN IF altloc # " "
       THEN IF has_id(res, name)
            THEN LET dup == res.child_dict[name]
                 IN IF is_disordered(dup) = 2
                    THEN AtomResult(
                            Put([res EXCEPT !.child_dict[name] =
                                    DisorderedAtom_disordered_add(dup, a)]),
                            a1, NoExc, w)
                    ELSE LET res1 == detach_child(res, name)
                             da == NewDisorderedAtom(name)
                             res2 == Entity_add(res1, da)
                             da1 == DisorderedAtom_disordered_add(da, a)
                             da2 == DisorderedAtom_disordered_add(da1, dup)
                         IN AtomResult(
                                Put([res2 EXCEPT !.child_dict[name] = da2,
                                                 !.disordered = 1]),
                                a1, NoExc, w \cup {WBlankAltloc})
            ELSE LET da == NewDisorderedAtom(name)
                     res1 == Entity_add(res, da)
                     da1 == DisorderedAtom_disordered_add(da, a)
                 IN AtomResult(
                        Put([res1 EXCEPT !.child_dict[name] = da1,
                                         !.disordered = 1]),
                        a1, NoExc, w)
       ELSE IF has_id(res, name)
            \* Residue.add: the atom is defined twice
            THEN AtomResult(e, a, ExcTwice(name), w)
            \* DisorderedResidue.add: added to the selected child, then raises
            ELSE IF grp
            THEN AtomResult(Put(Entity_add(res, a)), a,
                            ExcBlankAltlocs(res.resname, res.id), w)
            ELSE AtomResult(Put(Entity_add(res, a)), a, NoExc, w)
init_atom_on_without_flag(e, name0, fullname, altloc, occupancy) ==
    LET grp == e.kind = "DisorderedResidue"
        \* has_id, [], detach_child, flag_disordered of a group reach its
        \* selected child
        res == IF grp THEN disordered_get(e) ELSE e
        Put(r) == IF grp THEN [e EXCEPT !.child_dict[e.selected] = r] ELSE r
        collide == /\ has_id(res, name0)
                   /\ get_fullname(res.child_dict[name0]) # fullname
        name == IF collide THEN fullname ELSE name0
        w == IF collide THEN {WSpaces} ELSE {}
        a == NewAtom(name, fullname, altloc, occupancy)
        a1 == [a EXCEPT !.disordered_flag = 1]
    IN IF altloc # " "
       THEN IF has_id(res, name)
            THEN LET dup == res.child_dict[name]
                 IN IF is_disordered(dup) = 2
                    THEN AtomResult(
                            Put([res EXCEPT !.child_dict[name] =
                                    DisorderedAtom_disordered_add(dup, a)]),
                            a1, NoExc, w)
                    ELSE LET res1 == detach_child(res, name)
                             da == NewDisorderedAtom(name)
                             res2 == Entity_add(res1, da)
                             da1 == DisorderedAtom_disordered_add(da, a)
                             da2 == DisorderedAtom_disordered_add(da1, dup)
                         IN AtomResult(
                                Put([res2 EXCEPT !.child_dict[name] = da2]),
                                a1, NoExc, w \cup {WBlankAltloc})
            ELSE LET da == NewDisorderedAtom(name)
                     res1 == Entity_add(res, da)
                     da1 == DisorderedAtom_disordered_add(da, a)
                 IN AtomResult(
                        Put([res1 EXCEPT !.child_dict[name] = da1]),
                        a1, NoExc, w)
       ELSE IF has_id(res, name)
            \* Residue.add: the atom is defined twice
            THEN AtomResult(e, a, ExcTwice(name), w)
            \* DisorderedResidue.add: added to the selected child, then raises
            ELSE IF grp
            THEN AtomResult(Put(Entity_add(res, a)), a,
                            ExcBlankAltlocs(res.resname, res.id), w)
            ELSE AtomResult(Put(Entity_add(res, a)), a, NoExc, w)
init_atom_on(e, name0, fullname, altloc, occupancy) ==
    LET grp == e.kind = "DisorderedResidue"
        \* has_id, [], detach_child, flag_disordered of a group reach its
        \* selected child
        res == IF grp THEN disordered_get(e) ELSE e
        Put(r) == IF grp THEN [e EXCEPT !.child_dict[e.selected] = r] ELSE r
        collide == /\ has_id(res, name0)
                   /\ get_fullname(res.child_dict[name0]) # fullname
        name == IF collide THEN fullname ELSE name0
        w == IF collide THEN {WSpaces} ELSE {}
        a == NewAtom(name, fullname, altloc, occupancy)
        a1 == [a EXCEPT !.disordered_flag = 1]
    IN IF altloc # " "
       THEN IF has_id(res, name)
            THEN LET dup == res.child_dict[name]
                 IN IF is_disordered(dup) = 2
                    THEN AtomResult(
                            Put([res EXCEPT !.child_dict[name] =
                                    DisorderedAtom_disordered_add(dup, a)]),
                            a1, NoExc, w)
                    ELSE LET res1 == detach_child(res, name)
                             da == NewDisorderedAtom(name)
                             res2 == Entity_add(res1, da)
                             da1 == DisorderedAtom_disordered_add(da, a)
                             da2 == DisorderedAtom_disordered_add(da1, dup)
                         IN AtomResult(
                                Put([res2 EXCEPT !.child_dict[name] = da2,
                                                 !.disordered = 1]),
                                a1, NoExc, w \cup {WBlankAltloc})
            ELSE LET da == NewDisorderedAtom(name)
                     res1 == Entity_add(res, da)
                     da1 == DisorderedAtom_disordered_add(da, a)
                 IN AtomResult(
                        Put([res1 EXCEPT !.child_dict[name] = da1,
                                         !.disordered = 1]),
                        a1, NoExc, w)
       ELSE IF has_id(res, name)
            \* Residue.add: the atom is defined twice
            THEN AtomResult(e, a, ExcTwice(name), w)
            \* DisorderedResidue.add: added to the selected child, then raises
            ELSE IF grp
            THEN AtomResult(Put(Entity_add(res, a)), a,
                            ExcBlankAltlocs(res.resname, res.id), w)
            ELSE AtomResult(Put(Entity_add(res, a)), a, NoExc, w)

\* the Atom objects of an atom entry, a residue, an entry of a chain, ...
EntryAtoms(a) ==
    IF a.kind = "DisorderedAtom" THEN Cardinality(DOMAIN a.child_dict) ELSE 1
RECURSIVE ResidueAtoms(_, _)
ResidueAtoms(keys, d) ==
    IF keys = <<>> THEN 0
    ELSE EntryAtoms(d[Head(keys)]) + ResidueAtoms(Tail(keys), d)
RECURSIVE GroupAtoms(_, _)
GroupAtoms(keys, d) ==
    IF keys = <<>> THEN 0
    ELSE ResidueAtoms(d[Head(keys)].child_list, d[Head(keys)].child_dict)
         + GroupAtoms(Tail(keys), d)
RECURSIVE ChainAtoms(_, _)
ChainAtoms(keys, d) ==
    IF keys = <<>> THEN 0
    ELSE (IF d[Head(keys)].kind = "DisorderedResidue"
          THEN GroupAtoms(d[Head(keys)].keys, d[Head(keys)].child_dict)
          ELSE ResidueAtoms(d[Head(keys)].child_list,
                            d[Head(keys)].child_dict))
         + ChainAtoms(Tail(keys), d)
RECURSIVE ModelAtoms(_, _)
ModelAtoms(ids, chs) ==
    IF ids = <<>> THEN 0
    ELSE ChainAtoms(chs[Head(ids)].child_list, chs[Head(ids)].child_dict)
         + ModelAtoms(Tail(ids), chs)

init_atom_without_none_check(name, fullname, altloc, occupancy) ==
    /\ ModelAtoms(model_list, chains) < MaxAtoms
    /\ CASE residue.st \in {"unset", "none"} ->
              /\ last' = Outcome("init_atom", ExcAttribute("residue"), {})
              /\ UNCHANGED <<chains, atom>>
         [] OTHER ->
              LET e == chains[residue.chain].child_dict[residue.key]
                  r == init_atom_on(e, name, fullname, altloc, occupancy)
              IN /\ chains' = [chains EXCEPT
                        ![residue.chain].child_dict[residue.key] = r.entry]
                 /\ atom' = r.atom
                 /\ last' = Outcome("init_atom", r.raised, r.warnings)
    /\ UNCHANGED <<model_list, chain, residue>>
init_atom(name, fullname, altloc, occupancy) ==
    /\ ModelAtoms(model_list, chains) < MaxAtoms
    /\ CASE residue.st = "unset" ->
              /\ last' = Outcome("init_atom", ExcAttribute("residue"), {})
              /\ UNCHANGED <<chains, atom>>
         [] residue.st = "none" ->
              /\ last' = Outcome("init_atom", NoExc, {})
              /\ UNCHANGED <<chains, atom>>
         [] OTHER ->
              LET e == chains[residue.chain].child_dict[residue.key]
                  r == init_atom_on(e, name, fullname, altloc, occupancy)
              IN /\ chains' = [chains EXCEPT
                        ![residue.chain].child_dict[residue.key] = r.entry]
                 /\ atom' = r.atom
                 /\ last' = Outcome("init_atom", r.raised, r.warnings)
    /\ UNCHANGED <<model_list, chain, residue>>

----------------------------------------------------------------------------
(* The builder under the event streams of its callers *)

\* the builder instances, and the one that is not b
Builders == {"b1", "b2"}
Other(b) == CHOOSE o \in Builders : o # b

\* the attributes of the instance whose method is running
Attrs ==
    [model_list |-> model_list, chains |-> chains, chain |-> chain,
     residue |-> residue, atom |-> atom, last |-> last]

Init ==
    /\ model_list = <<>>
    /\ chains = EmptyDict
    /\ chain = NoChain
    /\ residue = Unset
    /\ atom = NoAtom
    /\ last = Outcome("init_model", NoExc, {})
    /\ builder = "b1"
    /\ parked = Attrs
    /\ alone = [b \in Builders |-> Attrs]

\* a method call on the running instance: the other instance is not passed
\* to it; alone follows the instance as long as it is what a run of its own
\* events would have left
OnSelf(Call) ==
    /\ Call
    /\ UNCHANGED <<builder, parked>>
    /\ alone' = [alone EXCEPT ![builder] = IF @ = Attrs THEN Attrs' ELSE @]

\* the next event goes to the other instance: every attribute is an
\* attribute of the instance (self.structure, self.chain, ...)
switch_sharing_structure ==
    /\ builder' = Other(builder)
    /\ parked' = Attrs
    /\ chain' = parked.chain
    /\ residue' = parked.residue
    /\ atom' = parked.atom
    /\ last' = parked.last
    /\ UNCHANGED <<model_list, chains, alone>>
switch ==
    /\ builder' = Other(builder)
    /\ parked' = Attrs
    /\ model_list' = parked.model_list
    /\ chains' = parked.chains
    /\ chain' = parked.chain
    /\ residue' = parked.residue
    /\ atom' = parked.atom
    /\ last' = parked.last
    /\ UNCHANGED alone

begin_chain(CI) == \E chain_id \in CI : OnSelf(init_chain(chain_id))
begin_schain(CI) == \E chain_id \in CI : OnSelf(init_schain(chain_id))
begin_residue(RN, FD, SQ, IC) ==
    \E resname \in RN, field \in FD, resseq \in SQ, icode \in IC :
        OnSelf(init_residue(resname, field, resseq, icode))
add_atom(FN, AL, OC) ==
    \E fullname \in FN, altloc \in AL, occupancy \in OC :
        OnSelf(init_atom(Strip(fullname), fullname, altloc, occupancy))
end_chain == OnSelf(finish_chain_construction)

\* one chain, residues that share and differ in key, name and hetero flag
Next ==
    \/ begin_chain({"A"})
    \/ begin_residue(ResNames, Fields, ResSeqs, ICodes)
    \/ add_atom(FullNames, AltLocs, Occupancies)
    \/ end_chain

Spec == Init /\ [][Next]_vars

\* two chains of both classes
NextChain ==
    \/ begin_chain(ChainIds)
    \/ begin_schain(ChainIds)
    \/ begin_residue(ResNames, {" "}, {1}, ICodes)
    \/ add_atom(FullNames, AltLocs, Occupancies)
    \/ end_chain

SpecChain == Init /\ [][NextChain]_vars

\* one residue slot, atoms of every spelling, altloc and occupancy
NextAtom ==
    \/ begin_chain({"A"})
    \/ begin_residue(ResNames, {" "}, {1}, ICodes)
    \/ add_atom(AllFullNames, AllAltLocs, Occupancies)
    \/ end_chain

SpecAtom == Init /\ [][NextAtom]_vars

\* one residue slot, every hetero flag and residue name
NextField ==
    \/ begin_chain({"A"})
    \/ begin_residue(AllResNames, AllFields, {1}, ICodes)
    \/ add_atom(FullNames, AltLocs, Occupancies)
    \/ end_chain

SpecField == Init /\ [][NextField]_vars

\* two builder instances, each with its own event stream, interleaved
NextTwo ==
    \/ begin_chain({"A"})
    \/ begin_residue({"ALA"}, {" "}, {1}, ICodes)
    \/ add_atom(FullNames, AltLocs, Occupancies)
    \/ end_chain
    \/ switch

SpecTwo == Init /\ [][NextTwo]_vars

\* one residue, one atom name, atoms of two occupancies
NextOccupancy ==
    \/ begin_chain({"A"})
    \/ begin_residue({"ALA"}, {" "}, {1}, ICodes)
    \/ add_atom(FullNames, AllAltLocs, AllOccupancies)
    \/ end_chain

SpecOccupancy == Init /\ [][NextOccupancy]_vars

----------------------------------------------------------------------------
(* Views of the hierarchy used by the properties *)

\* how often id occurs in a child_list
Occurrences(list, id) == Cardinality({i \in 1..Len(list) : list[i] = id})

\* the residue an entry of a chain resolves to: itself, or the selected
\* child of a group
Effective(e) == IF e.kind = "DisorderedResidue" THEN disordered_get(e) ELSE e

\* the Residue objects under an entry of a chain, by residue name
Nodes(e) ==
    IF e.kind = "DisorderedResidue" THEN e.child_dict
    ELSE [n \in {e.resname} |-> e]

\* the atoms of a residue: <<atom key, altloc, fullname, occupancy>>
AtomsOf(res) ==
    UNION {LET a == res.child_dict[k]
           IN IF a.kind = "DisorderedAtom"
              THEN {<<k, l, a.child_dict[l].fullname,
                      a.child_dict[l].occupancy>> : l \in DOMAIN a.child_dict}
              ELSE {<<k, a.altloc, a.fullname, a.occupancy>>}
           : k \in DOMAIN res.child_dict}

\* the atoms under an entry of a chain: <<residue name, atom>>
EntryAtomSet(e) ==
    UNION {{<<n, x>> : x \in AtomsOf(Nodes(e)[n])} : n \in DOMAIN Nodes(e)}

\* the atoms of the model: <<chain id, residue key, residue name, atom>>
AllAtoms(chs) ==
    UNION {UNION {{<<c, k, x[1], x[2]>> :
                     x \in EntryAtomSet(chs[c].child_dict[k])}
                  : k \in DOMAIN chs[c].child_dict}
           : c \in DOMAIN chs}

GroupKeys(ch) ==
    {k \in DOMAIN ch.child_dict : ch.child_dict[k].kind = "DisorderedResidue"}
PlainKeys(ch) ==
    {k \in DOMAIN ch.child_dict : ch.child_dict[k].kind = "Residue"}

----------------------------------------------------------------------------
(* C1: after every builder event, each residue key present in a chain maps
   to exactly one entry of the chain: the key is listed once in the chain's
   child_list, every listed key is in its child_dict, and the entry under the
   key carries that key and is either one plain Residue or one
   DisorderedResidue. *)
C1_ResidueKeysUnique ==
    \A c \in DOMAIN chains :
        LET ch == chains[c]
        IN /\ \A i \in 1..Len(ch.child_list) :
                  ch.child_list[i] \in DOMAIN ch.child_dict
           /\ \A k \in DOMAIN ch.child_dict :
                  /\ Occurrences(ch.child_list, k) = 1
                  /\ ch.child_dict[k].id = k
                  /\ ch.child_dict[k].kind \in {"Residue", "DisorderedResidue"}

\* a chain holding a group and a plain residue, after the end of the chain
C1_Witness ==
    /\ last.op = "finish_chain_construction"
    /\ chain # NoChain
    /\ GroupKeys(chains[chain]) # {}
    /\ PlainKeys(chains[chain]) # {}

----------------------------------------------------------------------------
\* the residue key of a begin_residue event: the hetero flag is blank, "W"
\* or "H_" + residue name
ResidueKey(resname, field, resseq, icode) ==
    <<IF field = " " THEN " " ELSE IF field = "W" THEN "W"
      ELSE HetField(resname), resseq, icode>>

\* every atom of the residue carries a non-blank altloc, and there is one
FullyDisordered(res) ==
    /\ AtomsOf(res) # {}
    /\ \A x \in AtomsOf(res) : x[2] # " "

(* C2: point-mutation disorder.  When begin_residue arrives at a key k that
   holds a plain Residue of another name whose atoms all carry a non-blank
   altloc, the chain then holds, listed once under k, one DisorderedResidue
   with exactly the two children (old name, new name); the old child is the
   old node with all its atoms, the new child is selected, so chain[k]
   resolves to it, and it is the active residue.  An atom with a non-blank
   altloc that follows is attached to the selected child and leaves the
   other children as they were. *)
C2_ResidueStep(resname, field, resseq, icode) ==
    LET k == ResidueKey(resname, field, resseq, icode)
        old == chains[chain].child_dict[k]
        g == chains'[chain].child_dict[k]
    IN (/\ last'.op = "init_residue"
        /\ chain # NoChain
        /\ k \in DOMAIN chains[chain].child_dict
        /\ old.kind = "Residue"
        /\ old.resname # resname
        /\ FullyDisordered(old)
        /\ init_residue(resname, field, resseq, icode))
       => /\ last'.raised = NoExc
          /\ DOMAIN chains'[chain].child_dict = DOMAIN chains[chain].child_dict
          /\ Occurrences(chains'[chain].child_list, k) = 1
          /\ g.kind = "DisorderedResidue"
          /\ g.id = k
          /\ DOMAIN g.child_dict = {old.resname, resname}
          /\ g.child_dict[old.resname] = old
          /\ g.child_dict[resname].resname = resname
          /\ AtomsOf(g.child_dict[resname]) = {}
          /\ g.selected = resname
          /\ Effective(g).resname = resname
          /\ residue' = Ref(chain, k)

C2_AtomStep(fullname, altloc, occupancy) ==
    LET g == chains[residue.chain].child_dict[residue.key]
        h == chains'[residue.chain].child_dict[residue.key]
    IN (/\ last'.op = "init_atom"
        /\ residue.st = "ref"
        /\ g.kind = "DisorderedResidue"
        /\ altloc # " "
        /\ init_atom(Strip(fullname), fullname, altloc, occupancy))
       => /\ last'.raised = NoExc
          /\ h.kind = "DisorderedResidue"
          /\ h.selected = g.selected
          /\ DOMAIN h.child_dict = DOMAIN g.child_dict
          /\ \A n \in DOMAIN g.child_dict \ {g.selected} :
                 h.child_dict[n] = g.child_dict[n]
          /\ AtomsOf(Effective(g)) \subseteq AtomsOf(Effective(h))
          /\ \E x \in AtomsOf(Effective(h)) :
                 /\ x[1] \in {Strip(fullname), fullname}
                 /\ x[2] = altloc
                 /\ x[3] = fullname

C2_PointMutation ==
    [][/\ \A resname \in AllResNames, field \in AllFields,
             resseq \in ResSeqs, icode \in ICodes :
              C2_ResidueStep(resname, field, resseq, icode)
       /\ \A fullname \in AllFullNames, altloc \in AllAltLocs,
             occupancy \in Occupancies :
              C2_AtomStep(fullname, altloc, occupancy)]_vars

\* ALA built with altloc "A", then SER at the same key with an atom "A"
C2_Witness ==
    /\ last.op = "init_atom"
    /\ chain # NoChain
    /\ \E k \in GroupKeys(chains[chain]) :
           LET g == chains[chain].child_dict[k]
           IN /\ g.keys = <<"ALA", "SER">>
              /\ g.child_dict["ALA"].id = k
              /\ g.child_dict["SER"].id = k
              /\ g.selected = "SER"
              /\ FullyDisordered(g.child_dict["ALA"])
              /\ FullyDisordered(g.child_dict["SER"])

----------------------------------------------------------------------------
(* C3: malformed duplicate rejection.  When begin_residue arrives with a
   name different from that of the plain Residue already at the same key, and
   an atom of that node has a blank altloc, the event raises the construction
   error carrying the residue name and the key, the model is left exactly as
   it was (no group, chain[k] still the node with its atoms), and
   self.residue is None. *)
C3_Step(resname, field, resseq, icode) ==
    LET k == ResidueKey(resname, field, resseq, icode)
        old == chains[chain].child_dict[k]
    IN (/\ last'.op = "init_residue"
        /\ chain # NoChain
        /\ k \in DOMAIN chains[chain].child_dict
        /\ old.kind = "Residue"
        /\ old.resname # resname
        /\ \E x \in AtomsOf(old) : x[2] = " "
        /\ init_residue(resname, field, resseq, icode))
       => /\ last'.raised = ExcBlankAltlocs(resname, k)
          /\ chains' = chains
          /\ model_list' = model_list
          /\ chains'[chain].child_dict[k].kind = "Residue"
          /\ Effective(chains'[chain].child_dict[k]) = old
          /\ residue' = None

C3_MalformedDuplicateRejected ==
    [][\A resname \in AllResNames, field \in AllFields,
          resseq \in ResSeqs, icode \in ICodes :
           C3_Step(resname, field, resseq, icode)]_vars

\* a begin_residue has just failed on a node that holds a blank-altloc atom
C3_Witness ==
    /\ last.op = "init_residue"
    /\ last.raised.type = "PDBConstructionException"
    /\ residue = None
    /\ \E k \in PlainKeys(chains[chain]) :
           /\ k[1] = last.raised.args[2]
           /\ k[2] = last.raised.args[3]
           /\ chains[chain].child_dict[k].resname # last.raised.args[1]
           /\ \E x \in AtomsOf(chains[chain].child_dict[k]) : x[2] = " "

----------------------------------------------------------------------------
(* C4: a begin_residue that fails with the construction error leaves
   self.residue None; while it is None every add_atom returns without an
   exception and changes neither the model nor self.atom; it stays None until
   the next begin_residue and becomes None only by such a failure; a
   begin_residue that does not fail makes it refer to an entry of the current
   chain, and an add_atom that then returns has its atom in that residue. *)
C4_DroppedUntilNextResidue ==
    [][/\ (last'.op = "init_residue"
           /\ last'.raised.type = "PDBConstructionException")
          => residue' = None
       /\ (residue = None /\ last'.op = "init_atom")
          => /\ chains' = chains
             /\ model_list' = model_list
             /\ AllAtoms(chains') = AllAtoms(chains)
             /\ atom' = atom
             /\ residue' = None
             /\ last'.raised = NoExc
       /\ (residue = None /\ last'.op # "init_residue") => residue' = None
       /\ (residue # None /\ residue' = None)
          => /\ last'.op = "init_residue"
             /\ last'.raised.type = "PDBConstructionException"
       /\ (last'.op = "init_residue" /\ last'.raised = NoExc)
          => /\ residue'.st = "ref"
             /\ residue'.chain = chain'
             /\ residue'.key \in DOMAIN chains'[chain'].child_dict
       /\ (residue.st = "ref" /\ last'.op = "init_atom"
           /\ last'.raised = NoExc)
          => \E x \in AtomsOf(Effective(
                        chains'[residue.chain].child_dict[residue.key])) :
                 /\ x[1] = atom'.id
                 /\ x[2] = atom'.altloc
                 /\ x[3] = atom'.fullname]_vars

\* an add_atom has just been dropped
C4_Witness ==
    /\ residue = None
    /\ last.op = "init_atom"
    /\ last.raised = NoExc

----------------------------------------------------------------------------
(* C5: no atom loss on pure disorder.  An add_atom record whose tag differs
   from the tags already recorded under its atom key in the residue (same
   residue, same name, same spelling) is attached under its own tag and the
   earlier ones stay; from the second record on the key holds one
   DisorderedAtom whose children are exactly the recorded tags.  As amended:
   a blank-tagged record is covered only when it is the first of its key.  No
   later event removes an attached atom. *)
TagsAt(res, name) == {x \in AtomsOf(res) : x[1] = name}

C5_Step(fullname, altloc, occupancy, blankFirst) ==
    LET name == Strip(fullname)
        res == Effective(chains[residue.chain].child_dict[residue.key])
        res2 == Effective(chains'[residue.chain].child_dict[residue.key])
        tags == {x[2] : x \in TagsAt(res, name)}
    IN (/\ last'.op = "init_atom"
        /\ residue.st = "ref"
        /\ \A x \in TagsAt(res, name) : x[3] = fullname
        /\ altloc \notin tags
        /\ blankFirst => (altloc # " " \/ tags = {})
        /\ init_atom(name, fullname, altloc, occupancy))
       => /\ TagsAt(res2, name) =
                 TagsAt(res, name) \cup {<<name, altloc, fullname, occupancy>>}
          /\ tags # {} =>
                LET da == res2.child_dict[name]
                IN /\ da.kind = "DisorderedAtom"
                   /\ da.id = name
                   /\ DOMAIN da.child_dict = tags \cup {altloc}
                   /\ \A l \in DOMAIN da.child_dict :
                          /\ da.child_dict[l].kind = "Atom"
                          /\ da.child_dict[l].altloc = l
                          /\ da.child_dict[l].fullname = fullname

C5_NoAtomLossBlankFirst ==
    [][/\ AllAtoms(chains) \subseteq AllAtoms(chains')
       /\ \A fullname \in AllFullNames, altloc \in AllAltLocs,
             occupancy \in Occupancies :
              C5_Step(fullname, altloc, occupancy, TRUE)]_vars

\* the claim as stated: the records in whatever order
C5_NoAtomLossAnyOrder ==
    [][/\ AllAtoms(chains) \subseteq AllAtoms(chains')
       /\ \A fullname \in AllFullNames, altloc \in AllAltLocs,
             occupancy \in Occupancies :
              C5_Step(fullname, altloc, occupancy, FALSE)]_vars

\* three records of one atom, the blank-tagged one first, in one group
C5_Witness ==
    /\ last.op = "init_atom"
    /\ residue.st = "ref"
    /\ LET res == Effective(chains[residue.chain].child_dict[residue.key])
       IN \E n \in DOMAIN res.child_dict :
              /\ res.child_dict[n].kind = "DisorderedAtom"
              /\ Cardinality(DOMAIN res.child_dict[n].child_dict) >= 3
              /\ " " \in DOMAIN res.child_dict[n].child_dict

----------------------------------------------------------------------------
(* C6: a residue is never silently dropped.  Every begin_residue that
   returns with self.residue at an entry the chain already held ends in
   exactly one of: the plain node is reused unchanged; the group at the slot
   re-selects a child or gains one empty child, its other children unchanged;
   a new group replaces the plain node and holds it together with one new
   empty node.  Every atom attached at the slot before is reachable after,
   and the other slots of the chain are unchanged. *)
C6_Reused(old, new) ==
    /\ old.kind = "Residue"
    /\ new = old

C6_GroupGrown(old, new) ==
    /\ old.kind = "DisorderedResidue"
    /\ new.kind = "DisorderedResidue"
    /\ new.id = old.id
    /\ \A n \in DOMAIN old.child_dict :
           n \in DOMAIN new.child_dict /\ new.child_dict[n] = old.child_dict[n]
    /\ new.selected \in DOMAIN new.child_dict
    /\ \/ DOMAIN new.child_dict = DOMAIN old.child_dict
       \/ /\ new.selected \notin DOMAIN old.child_dict
          /\ DOMAIN new.child_dict = DOMAIN old.child_dict \cup {new.selected}
          /\ AtomsOf(new.child_dict[new.selected]) = {}

C6_GroupCreated(old, new) ==
    /\ old.kind = "Residue"
    /\ new.kind = "DisorderedResidue"
    /\ new.id = old.id
    /\ new.selected # old.resname
    /\ DOMAIN new.child_dict = {old.resname, new.selected}
    /\ new.child_dict[old.resname] = old
    /\ new.child_dict[new.selected].kind = "Residue"
    /\ AtomsOf(new.child_dict[new.selected]) = {}

C6_Step ==
    (/\ last'.op = "init_residue"
     /\ last'.raised = NoExc
     /\ chain # NoChain
     /\ residue'.st = "ref"
     /\ residue'.key \in DOMAIN chains[chain].child_dict)
    => LET k == residue'.key
           old == chains[chain].child_dict[k]
           new == chains'[chain].child_dict[k]
       IN /\ residue'.chain = chain
          /\ Cardinality({o \in {"reused", "grown", "created"} :
                 \/ o = "reused" /\ C6_Reused(old, new)
                 \/ o = "grown" /\ C6_GroupGrown(old, new)
                 \/ o = "created" /\ C6_GroupCreated(old, new)}) = 1
          /\ EntryAtomSet(old) \subseteq EntryAtomSet(new)
          /\ DOMAIN chains'[chain].child_dict = DOMAIN chains[chain].child_dict
          /\ \A j \in DOMAIN chains[chain].child_dict \ {k} :
                 chains'[chain].child_dict[j] = chains[chain].child_dict[j]
          /\ Occurrences(chains'[chain].child_list, k) = 1

C6_ResidueNeverDropped == [][C6_Step]_vars

\* a begin_residue has just added a third child to a group that holds atoms
C6_Witness ==
    /\ last.op = "init_residue"
    /\ last.raised = NoExc
    /\ residue.st = "ref"
    /\ LET g == chains[residue.chain].child_dict[residue.key]
       IN /\ g.kind = "DisorderedResidue"
          /\ Cardinality(DOMAIN g.child_dict) = 3
          /\ AtomsOf(disordered_get(g)) = {}
          /\ \E n \in DOMAIN g.child_dict : AtomsOf(g.child_dict[n]) # {}

----------------------------------------------------------------------------
(* C7: uniqueness after end_chain.  Right after end_chain, iterating the
   chain it ran on (a group standing for its selected child) yields plain
   Residue nodes only, each carrying the key it is listed under, so every key
   of the chain is the id of exactly one of them, whatever the number of
   alternates recorded under the key. *)
Iterated(ch) ==
    [i \in 1..Len(ch.child_list) |->
        Effective(ch.child_dict[ch.child_list[i]])]

C7_UniqueAfterEndChain ==
    (last.op = "finish_chain_construction" /\ chain # NoChain)
    => LET ch == chains[chain]
           it == Iterated(ch)
       IN /\ \A i \in DOMAIN it :
                 /\ it[i].kind = "Residue"
                 /\ it[i].id = ch.child_list[i]
          /\ \A k \in DOMAIN ch.child_dict :
                 Cardinality({i \in DOMAIN it : it[i].id = k}) = 1

\* end_chain has run on a chain with a plain residue and a group one of whose
\* alternates carries another id than the group
C7_Witness ==
    /\ last.op = "finish_chain_construction"
    /\ chain # NoChain
    /\ PlainKeys(chains[chain]) # {}
    /\ \E k \in GroupKeys(chains[chain]) :
           LET g == chains[chain].child_dict[k]
           IN \E n \in DOMAIN g.child_dict : g.child_dict[n].id # k

----------------------------------------------------------------------------
(* C8: default selection determinism.  Right after end_chain every group of
   the chain it ran on has selected a child whose id is the group's id, and
   which child that is depends on the recorded children alone, not on the
   child that was selected before: it is the last recorded child carrying the
   group's id. *)
Matching(g) == {i \in 1..Len(g.keys) : g.child_dict[g.keys[i]].id = g.id}

C8_DefaultSelection ==
    (last.op = "finish_chain_construction" /\ chain # NoChain)
    => \A k \in GroupKeys(chains[chain]) :
           LET g == chains[chain].child_dict[k]
           IN /\ g.selected \in DOMAIN g.child_dict
              /\ g.child_dict[g.selected].id = g.id
              /\ g.id = k
              /\ Matching(g) # {}
              /\ \A i \in Matching(g) :
                     (\A j \in Matching(g) : j <= i) => g.selected = g.keys[i]

\* end_chain has run on a group of three alternates, two of them carrying
\* the group's id
C8_Witness ==
    /\ last.op = "finish_chain_construction"
    /\ chain # NoChain
    /\ \E k \in GroupKeys(chains[chain]) :
           LET g == chains[chain].child_dict[k]
           IN /\ Len(g.keys) = 3
              /\ Cardinality(Matching(g)) = 2

----------------------------------------------------------------------------
(* C9: begin_chain is idempotent.  The model never lists a chain id twice.
   begin_chain (init_chain or init_schain) with an id the model holds leaves
   the model and every chain as they were, makes that chain the current one
   and warns that the chain is discontinuous; with an id the model does not
   hold it appends one new chain without residues, leaves the other chains
   as they were and does not warn. *)
C9_OneChainPerId ==
    /\ \A i, j \in 1..Len(model_list) :
           model_list[i] = model_list[j] => i = j
    /\ {model_list[i] : i \in 1..Len(model_list)} = DOMAIN chains
    /\ \A c \in DOMAIN chains : chains[c].id = c

C9_Step(chain_id) ==
    (/\ last'.op = "init_chain"
     /\ init_chain(chain_id) \/ init_schain(chain_id))
    => /\ chain' = chain_id
       /\ last'.raised = NoExc
       /\ chain_id \in DOMAIN chains =>
             /\ chains' = chains
             /\ model_list' = model_list
             /\ last'.warnings = {WDiscontinuous}
       /\ chain_id \notin DOMAIN chains =>
             /\ model_list' = Append(model_list, chain_id)
             /\ DOMAIN chains' = DOMAIN chains \cup {chain_id}
             /\ chains'[chain_id].child_list = <<>>
             /\ DOMAIN chains'[chain_id].child_dict = {}
             /\ \A c \in DOMAIN chains : chains'[c] = chains[c]
             /\ last'.warnings = {}

C9_BeginChainIdempotent ==
    [][/\ C9_OneChainPerId'
       /\ \A chain_id \in ChainIds : C9_Step(chain_id)]_vars

\* a chain that holds a residue has just been reopened after another chain
C9_Witness ==
    /\ last.op = "init_chain"
    /\ WDiscontinuous \in last.warnings
    /\ Len(model_list) = 2
    /\ chain = model_list[1]
    /\ chains[chain].child_list # <<>>

----------------------------------------------------------------------------
(* C10: hetero-flag normalization in begin_residue.  The key a begin_residue
   event works with has as first component the flag itself when the flag is
   blank or "W", and "H_" + residue name when it is the hetero flag: the
   event is treated as a re-declaration (the "redefined" warning) exactly
   when the chain holds that key, every Residue node the event creates
   carries that key and the event's name, and when no residue of the chain
   has the event's sequence number the node is listed under that key. *)
NodeIds(ch) ==
    UNION {{<<Nodes(ch.child_dict[k])[n].id, Nodes(ch.child_dict[k])[n].resname>>
              : n \in DOMAIN Nodes(ch.child_dict[k])}
           : k \in DOMAIN ch.child_dict}

C10_Step(resname, field, resseq, icode) ==
    LET k == ResidueKey(resname, field, resseq, icode)
        ch == chains[chain]
        ch2 == chains'[chain]
    IN (/\ last'.op = "init_residue"
        /\ chain # NoChain
        /\ init_residue(resname, field, resseq, icode))
       => /\ WRedefined \in last'.warnings <=> k \in DOMAIN ch.child_dict
          /\ NodeIds(ch2) \ NodeIds(ch) \subseteq {<<k, resname>>}
          /\ (\A j \in DOMAIN ch.child_dict : j[2] # resseq)
             => /\ DOMAIN ch2.child_dict = DOMAIN ch.child_dict \cup {k}
                /\ ch2.child_dict[k].kind = "Residue"
                /\ ch2.child_dict[k].id = k
                /\ ch2.child_dict[k].resname = resname
                /\ residue' = Ref(chain, k)

C10_HeteroFlagNormalized ==
    [][\A resname \in AllResNames, field \in AllFields,
          resseq \in ResSeqs, icode \in ICodes :
           C10_Step(resname, field, resseq, icode)]_vars

\* begin_residue has stored a water and a hetero residue was declared at
\* its sequence number
C10_Witness ==
    /\ last.op = "init_residue"
    /\ last.raised = NoExc
    /\ chain # NoChain
    /\ \E k \in DOMAIN chains[chain].child_dict :
           /\ k[1] = "W"
           /\ \E x \in NodeIds(chains[chain]) :
                  x[1][1] = HetField(x[2])

----------------------------------------------------------------------------
\* the Residue nodes of the model: plain entries and the children of groups
ResidueNodes(chs) ==
    UNION {UNION {{Nodes(chs[c].child_dict[k])[n]
                     : n \in DOMAIN Nodes(chs[c].child_dict[k])}
                  : k \in DOMAIN chs[c].child_dict}
           : c \in DOMAIN chs}

\* the DisorderedResidue entries of the model
ResidueGroups(chs) ==
    UNION {{chs[c].child_dict[k] : k \in GroupKeys(chs[c])}
           : c \in DOMAIN chs}

(* C11: after every event each atom key of a Residue node is listed once and
   maps to one entry carrying that key, which is one Atom or one
   DisorderedAtom. *)
C11_AtomKeysUnique ==
    \A res \in ResidueNodes(chains) :
        /\ {res.child_list[i] : i \in 1..Len(res.child_list)}
               = DOMAIN res.child_dict
        /\ \A k \in DOMAIN res.child_dict :
               /\ Occurrences(res.child_list, k) = 1
               /\ res.child_dict[k].kind \in {"Atom", "DisorderedAtom"}
               /\ res.child_dict[k].id = k

\* an atom with an altloc has just replaced a plain atom by a group, next to
\* an atom keyed by its full spelling
C11_Witness ==
    /\ last.op = "init_atom"
    /\ WBlankAltloc \in last.warnings
    /\ \E res \in ResidueNodes(chains) :
           /\ Len(res.child_list) = 2
           /\ \E k \in DOMAIN res.child_dict :
                  res.child_dict[k].kind = "DisorderedAtom"
           /\ \E k \in DOMAIN res.child_dict : res.child_dict[k].kind = "Atom"

----------------------------------------------------------------------------
(* C12: after every event each DisorderedResidue has its children keyed by
   their residue name, no name recorded twice, and exactly one child
   selected: the selection names one of the children. *)
C12_GroupChildrenByName ==
    \A g \in ResidueGroups(chains) :
        /\ {g.keys[i] : i \in 1..Len(g.keys)} = DOMAIN g.child_dict
        /\ \A n \in DOMAIN g.child_dict :
               /\ Occurrences(g.keys, n) = 1
               /\ g.child_dict[n].kind = "Residue"
               /\ g.child_dict[n].resname = n
        /\ Cardinality({n \in DOMAIN g.child_dict : g.selected = n}) = 1

\* begin_residue has just selected the first child of a group again
C12_Witness ==
    /\ last.op = "init_residue"
    /\ residue.st = "ref"
    /\ LET g == chains[residue.chain].child_dict[residue.key]
       IN /\ g.kind = "DisorderedResidue"
          /\ Len(g.keys) = 2
          /\ g.selected = g.keys[1]

----------------------------------------------------------------------------
\* the atom entries of the model:
\* <<chain id, residue key, residue name, atom key, entry>>
AtomEntries(chs) ==
    UNION {UNION {UNION {{<<c, k, n, a, Nodes(chs[c].child_dict[k])[n].child_dict[a]>>
                           : a \in DOMAIN Nodes(chs[c].child_dict[k])[n].child_dict}
                         : n \in DOMAIN Nodes(chs[c].child_dict[k])}
                  : k \in DOMAIN chs[c].child_dict}
           : c \in DOMAIN chs}

AtomGroups(chs) == {x \in AtomEntries(chs) : x[5].kind = "DisorderedAtom"}

(* C13, as stated: after any event no DisorderedAtom holds zero children or
   exactly one child. *)
C13_GroupsHoldTwo ==
    \A x \in AtomGroups(chains) : Cardinality(DOMAIN x[5].child_dict) >= 2

(* C13, as amended: a DisorderedAtom appears under an atom key only in an
   add_atom step whose atom has a non-blank altloc and whose key held no
   group; it then holds that atom alone when the key was unused, and that
   atom together with the plain atom the key held otherwise.  No
   DisorderedAtom ever holds zero children. *)
C13_Created(x) ==
    LET held == {y \in AtomEntries(chains) :
                    y[1] = x[1] /\ y[2] = x[2] /\ y[3] = x[3] /\ y[4] = x[4]}
        da == x[5]
    IN (\A y \in held : y[5].kind # "DisorderedAtom")
       => /\ last'.op = "init_atom"
          /\ atom'.altloc # " "
          /\ atom'.altloc \in DOMAIN da.child_dict
          /\ da.child_dict[atom'.altloc] = atom'
          /\ held = {} => DOMAIN da.child_dict = {atom'.altloc}
          /\ \A y \in held :
                 /\ y[5].altloc # atom'.altloc
                 /\ DOMAIN da.child_dict = {atom'.altloc, y[5].altloc}
                 /\ da.child_dict[y[5].altloc].fullname = y[5].fullname
                 /\ da.child_dict[y[5].altloc].altloc = y[5].altloc

C13_GroupCreation ==
    [][/\ \A x \in AtomGroups(chains') : C13_Created(x)
       /\ \A x \in AtomGroups(chains') : DOMAIN x[5].child_dict # {}]_vars

\* one group made from a plain atom and one made for a first atom
C13_Witness ==
    /\ last.op = "init_atom"
    /\ \E x \in AtomGroups(chains) : Cardinality(DOMAIN x[5].child_dict) = 1
    /\ \E x \in AtomGroups(chains) : " " \in DOMAIN x[5].child_dict

----------------------------------------------------------------------------
(* C14: atom name disambiguation.  add_atom with a full spelling other than
   the one stored under the trimmed name, its own full spelling not yet a
   key, warns and attaches the atom under its full spelling; the atom already
   there stays as it is.  As amended, the earlier atom stays under the
   trimmed name. *)
C14_Pre(res, fullname) ==
    /\ has_id(res, Strip(fullname))
    /\ get_fullname(res.child_dict[Strip(fullname)]) # fullname
    /\ fullname \notin DOMAIN res.child_dict

C14_Step(fullname, altloc, occupancy, bothFull) ==
    LET name == Strip(fullname)
        res == Effective(chains[residue.chain].child_dict[residue.key])
        res2 == Effective(chains'[residue.chain].child_dict[residue.key])
        first == get_fullname(res.child_dict[name])
    IN (/\ last'.op = "init_atom"
        /\ residue.st = "ref"
        /\ C14_Pre(res, fullname)
        /\ init_atom(name, fullname, altloc, occupancy))
       => /\ WSpaces \in last'.warnings
          /\ DOMAIN res2.child_dict = DOMAIN res.child_dict \cup {fullname}
          /\ get_fullname(res2.child_dict[fullname]) = fullname
          /\ res2.child_dict[fullname].id = fullname
          /\ atom'.id = fullname
          /\ <<fullname, altloc, fullname, occupancy>> \in AtomsOf(res2)
          /\ IF bothFull
             THEN /\ first \in DOMAIN res2.child_dict
                  /\ get_fullname(res2.child_dict[first]) = first
             ELSE /\ res2.child_dict[name] = res.child_dict[name]
                  /\ get_fullname(res2.child_dict[name]) = first

C14_SecondKeyedByFullSpelling ==
    [][\A fullname \in AllFullNames, altloc \in AllAltLocs,
          occupancy \in Occupancies :
           C14_Step(fullname, altloc, occupancy, FALSE)]_vars

\* the claim as stated: each of the two atoms keyed by its own full spelling
C14_BothKeyedByFullSpelling ==
    [][\A fullname \in AllFullNames, altloc \in AllAltLocs,
          occupancy \in Occupancies :
           C14_Step(fullname, altloc, occupancy, TRUE)]_vars

\* " CA." under "CA" and ".CA " under its full spelling, just added
C14_Witness ==
    /\ last.op = "init_atom"
    /\ WSpaces \in last.warnings
    /\ residue.st = "ref"
    /\ LET res == Effective(chains[residue.chain].child_dict[residue.key])
       IN /\ DOMAIN res.child_dict = {"CA", ".CA "}
          /\ get_fullname(res.child_dict["CA"]) = " CA."
          /\ get_fullname(res.child_dict[".CA "]) = ".CA "

----------------------------------------------------------------------------
(* C15: independent builders do not interfere.  With the events of two
   instances interleaved in any order, no event of the running instance
   changes the attributes of the other, and after every step the hierarchy
   and the cursors of each instance are what its own events alone have
   left. *)
C15_BuildersIndependent ==
    [][/\ builder' = builder => parked' = parked
       /\ alone'[builder'] = Attrs'
       /\ alone'[Other(builder')] = parked']_vars

\* both instances have built a residue with an atom, not the same one
C15_Witness ==
    /\ builder = "b2"
    /\ last.op = "init_atom"
    /\ last.raised = NoExc
    /\ AllAtoms(chains) # {}
    /\ AllAtoms(parked.chains) # {}
    /\ AllAtoms(chains) # AllAtoms(parked.chains)

----------------------------------------------------------------------------
(* C16: order independence of the hetero lookup.  Whatever the order in
   which the residues of the chain were inserted, begin_residue with a
   sequence number the chain holds finds the residue of that number: it adds
   no entry to the chain, and its outcome (the entries of the chain, the
   cursor, the exception, the warnings) is the one it has on the same
   residues in any other order. *)
Orders(list) ==
    {p \in [1..Len(list) -> {list[i] : i \in 1..Len(list)}] :
        \A i, j \in 1..Len(list) : p[i] = p[j] => i = j}

C16_Step(resname, field, resseq, icode) ==
    LET ch == chains[chain]
    IN (/\ last'.op = "init_residue"
        /\ chain # NoChain
        /\ \E j \in DOMAIN ch.child_dict : j[2] = resseq
        /\ init_residue(resname, field, resseq, icode))
       => /\ DOMAIN chains'[chain].child_dict = DOMAIN ch.child_dict
          /\ \A p \in Orders(ch.child_list) :
                 LET r == init_residue_on([ch EXCEPT !.child_list = p],
                                          resname, field, resseq, icode)
                 IN /\ r.chain.child_dict = chains'[chain].child_dict
                    /\ r.residue = residue'
                    /\ r.raised = last'.raised
                    /\ r.warnings = last'.warnings

C16_HeteroLookupOrderIndependent ==
    [][\A resname \in ResNames, field \in Fields,
          resseq \in ResSeqs, icode \in ICodes :
           C16_Step(resname, field, resseq, icode)]_vars

\* a hetero residue listed second was found by its sequence number and put
\* into a group with the residue declared at that number
C16_Witness ==
    /\ last.op = "init_residue"
    /\ last.raised = NoExc
    /\ residue.st = "ref"
    /\ Len(chains[chain].child_list) = 2
    /\ LET g == chains[chain].child_dict[residue.key]
       IN /\ g.kind = "DisorderedResidue"
          /\ g.id[1] # " "
          /\ \E n \in DOMAIN g.child_dict : g.child_dict[n].id # g.id

----------------------------------------------------------------------------
(* C17: residue fast path.  begin_residue with a key the current chain does
   not hold appends one new plain Residue without atoms under that key, makes
   it the active residue, raises and warns nothing, and leaves every other
   residue of the chain, and every other chain, as it was.  As amended: when
   no residue of the chain has the event's sequence number. *)
C17_Step(resname, field, resseq, icode, freeNumber) ==
    LET k == ResidueKey(resname, field, resseq, icode)
        ch == chains[chain]
        ch2 == chains'[chain]
    IN (/\ last'.op = "init_residue"
        /\ chain # NoChain
        /\ k \notin DOMAIN ch.child_dict
        /\ freeNumber => \A j \in DOMAIN ch.child_dict : j[2] # resseq
        /\ init_residue(resname, field, resseq, icode))
       => /\ ch2.child_list = Append(ch.child_list, k)
          /\ DOMAIN ch2.child_dict = DOMAIN ch.child_dict \cup {k}
          /\ ch2.child_dict[k].kind = "Residue"
          /\ ch2.child_dict[k].id = k
          /\ ch2.child_dict[k].resname = resname
          /\ ch2.child_dict[k].child_list = <<>>
          /\ DOMAIN ch2.child_dict[k].child_dict = {}
          /\ \A j \in DOMAIN ch.child_dict : ch2.child_dict[j] = ch.child_dict[j]
          /\ \A c \in DOMAIN chains \ {chain} : chains'[c] = chains[c]
          /\ model_list' = model_list
          /\ residue' = Ref(chain, k)
          /\ last'.raised = NoExc
          /\ last'.warnings = {}

C17_FastPathFreeNumber ==
    [][\A resname \in AllResNames, field \in AllFields,
          resseq \in ResSeqs, icode \in ICodes :
           C17_Step(resname, field, resseq, icode, TRUE)]_vars

\* the claim as stated: for every key the chain does not hold
C17_FastPathAbsentKey ==
    [][\A resname \in AllResNames, field \in AllFields,
          resseq \in ResSeqs, icode \in ICodes :
           C17_Step(resname, field, resseq, icode, FALSE)]_vars

\* a second residue has just been appended to a chain whose first residue
\* holds an atom
C17_Witness ==
    /\ last.op = "init_residue"
    /\ last.raised = NoExc
    /\ last.warnings = {}
    /\ residue.st = "ref"
    /\ Len(chains[chain].child_list) = 2
    /\ residue.key = chains[chain].child_list[2]
    /\ chains[chain].child_dict[residue.key].kind = "Residue"
    /\ AtomsOf(chains[chain].child_dict[residue.key]) = {}
    /\ EntryAtomSet(chains[chain].child_dict[chains[chain].child_list[1]]) # {}

----------------------------------------------------------------------------
(* C18: exact re-declaration.  begin_residue at a key that holds a plain
   Residue of the same name makes that residue the active one, changes
   nothing in the model (no new node, no group, the atoms as they were) and
   warns; the same event again leaves the same hierarchy and cursor. *)
C18_Step(resname, field, resseq, icode) ==
    LET k == ResidueKey(resname, field, resseq, icode)
        ch == chains[chain]
    IN (/\ last'.op = "init_residue"
        /\ chain # NoChain
        /\ k \in DOMAIN ch.child_dict
        /\ ch.child_dict[k].kind = "Residue"
        /\ ch.child_dict[k].resname = resname
        /\ init_residue(resname, field, resseq, icode))
       => /\ chains' = chains
          /\ model_list' = model_list
          /\ chains'[chain].child_dict[k].kind = "Residue"
          /\ AtomsOf(chains'[chain].child_dict[k]) = AtomsOf(ch.child_dict[k])
          /\ residue' = Ref(chain, k)
          /\ last'.raised = NoExc
          /\ WSameName \in last'.warnings
          /\ LET again == init_residue_on(chains'[chain], resname, field,
                                          resseq, icode)
             IN /\ again.chain = chains'[chain]
                /\ again.residue = residue'
                /\ again.raised = last'.raised
                /\ again.warnings = last'.warnings

C18_ExactRedeclaration ==
    [][\A resname \in AllResNames, field \in AllFields,
          resseq \in ResSeqs, icode \in ICodes :
           C18_Step(resname, field, resseq, icode)]_vars

\* a residue that holds an atom has just been declared again, after another
\* residue had been the active one
C18_Witness ==
    /\ last.op = "init_residue"
    /\ last.warnings = {WRedefined, WSameName}
    /\ residue.st = "ref"
    /\ Len(chains[chain].child_list) = 2
    /\ residue.key = chains[chain].child_list[1]
    /\ chains[chain].child_dict[residue.key].kind = "Residue"
    /\ AtomsOf(chains[chain].child_dict[residue.key]) # {}

----------------------------------------------------------------------------
(* C19, as stated: every child of a DisorderedResidue carries the id of the
   group. *)
C19_ChildrenShareGroupKey ==
    \A g \in ResidueGroups(chains) :
        \A n \in DOMAIN g.child_dict : g.child_dict[n].id = g.id

(* C19, as amended: every child of a DisorderedResidue carries the sequence
   number of the group, and the child the group was formed from, the first
   recorded, carries the id of the group. *)
C19_ChildrenShareNumber ==
    \A g \in ResidueGroups(chains) :
        /\ g.keys # <<>>
        /\ g.child_dict[g.keys[1]].id = g.id
        /\ \A n \in DOMAIN g.child_dict : g.child_dict[n].id[2] = g.id[2]

\* a group of three children, formed and extended by hetero residues of its
\* sequence number
C19_Witness ==
    /\ last.op = "init_residue"
    /\ \E g \in ResidueGroups(chains) :
           /\ Len(g.keys) = 3
           /\ g.child_dict[g.keys[2]].id # g.id
           /\ g.child_dict[g.keys[3]].id # g.id

----------------------------------------------------------------------------
(* C20: blank altloc before disorder.  add_atom with a non-blank altloc under
   a key that holds a plain Atom of the same spelling replaces it, under the
   same key, by a DisorderedAtom holding both atoms, marks the residue as
   disordered and warns.  As amended, the new atom is added first and the
   atom that was there second, so that the atom that was there is the
   selected one only when its occupancy is the higher. *)
C20_Step(fullname, altloc, occupancy, existingFirst) ==
    LET name == Strip(fullname)
        res == Effective(chains[residue.chain].child_dict[residue.key])
        res2 == Effective(chains'[residue.chain].child_dict[residue.key])
        old == res.child_dict[name]
        da == res2.child_dict[name]
    IN (/\ last'.op = "init_atom"
        /\ residue.st = "ref"
        /\ altloc # " "
        /\ has_id(res, name)
        /\ old.kind = "Atom"
        /\ old.fullname = fullname
        /\ init_atom(name, fullname, altloc, occupancy))
       => /\ last'.raised = NoExc
          /\ WBlankAltloc \in last'.warnings
          /\ res2.child_list = Append(ListRemove(res.child_list, name), name)
          /\ DOMAIN res2.child_dict = DOMAIN res.child_dict
          /\ res2.disordered = 1
          /\ da.kind = "DisorderedAtom"
          /\ da.id = name
          /\ DOMAIN da.child_dict = {altloc, old.altloc}
          /\ da.child_dict[old.altloc] = [old EXCEPT !.disordered_flag = 1]
          /\ da.child_dict[altloc] = atom'
          /\ atom'.altloc = altloc
          /\ atom'.fullname = fullname
          /\ atom'.occupancy = occupancy
          /\ IF existingFirst
             THEN /\ da.keys = <<old.altloc, altloc>>
                  /\ da.selected = IF occupancy > old.occupancy
                                   THEN altloc ELSE old.altloc
             ELSE /\ da.keys = <<altloc, old.altloc>>
                  /\ da.selected = IF old.occupancy > occupancy
                                   THEN old.altloc ELSE altloc

C20_NewAtomFirst ==
    [][\A fullname \in AllFullNames, altloc \in AllAltLocs,
          occupancy \in AllOccupancies :
           C20_Step(fullname, altloc, occupancy, FALSE)]_vars

\* the claim as stated: the existing atom first, the new atom second
C20_ExistingAtomFirst ==
    [][\A fullname \in AllFullNames, altloc \in AllAltLocs,
          occupancy \in AllOccupancies :
           C20_Step(fullname, altloc, occupancy, TRUE)]_vars

\* a plain atom of the higher occupancy has just been put into a group and
\* is the selected one
C20_Witness ==
    /\ last.op = "init_atom"
    /\ WBlankAltloc \in last.warnings
    /\ residue.st = "ref"
    /\ LET res == Effective(chains[residue.chain].child_dict[residue.key])
       IN \E n \in DOMAIN res.child_dict :
              /\ res.child_dict[n].kind = "DisorderedAtom"
              /\ Len(res.child_dict[n].keys) = 2
              /\ res.child_dict[n].keys[2] = " "
              /\ res.child_dict[n].selected = " "

----------------------------------------------------------------------------
(* C21: the duplicate-heteroatom path.  begin_residue whose key the chain
   holds is handled as a duplicate of that key (the "redefined" warning),
   whatever the lookup by sequence number returns.  When the chain does not
   hold the key but holds residues of the event's sequence number, no entry
   is added under the key, nothing is reported as redefined, and the first
   such residue in chain order is resolved by the rules of a duplicate: a
   group selects or gains the name, a plain residue of the same name is
   reused with a warning, one with a blank-altloc atom makes the event fail,
   any other is put into a new group with a new node that carries the
   event's key.  Otherwise the residue is new. *)
FirstOfNumber(ch, resseq) ==
    LET m == {i \in 1..Len(ch.child_list) : ch.child_list[i][2] = resseq}
    IN ch.child_list[CHOOSE i \in m : \A j \in m : i <= j]

C21_Resolved(ch, ch2, d, k, resname) ==
    LET dup == ch.child_dict[d]
        new == ch2.child_dict[d]
    IN /\ DOMAIN ch2.child_dict = DOMAIN ch.child_dict
       /\ \A j \in DOMAIN ch.child_dict \ {d} :
              ch2.child_dict[j] = ch.child_dict[j]
       /\ CASE dup.kind = "DisorderedResidue" ->
                 /\ C6_GroupGrown(dup, new)
                 /\ new.selected = resname
                 /\ new.child_dict[resname].id =
                        IF resname \in DOMAIN dup.child_dict
                        THEN dup.child_dict[resname].id ELSE k
                 /\ residue' = Ref(chain, d)
                 /\ last'.raised = NoExc
            [] dup.kind = "Residue" /\ dup.resname = resname ->
                 /\ ch2 = ch
                 /\ residue' = Ref(chain, d)
                 /\ WSameName \in last'.warnings
                 /\ last'.raised = NoExc
            [] /\ dup.kind = "Residue" /\ dup.resname # resname
               /\ \E x \in AtomsOf(dup) : x[2] = " " ->
                 /\ ch2 = ch
                 /\ residue' = None
                 /\ last'.raised = ExcBlankAltlocs(resname, k)
            [] OTHER ->
                 /\ C6_GroupCreated(dup, new)
                 /\ new.selected = resname
                 /\ new.child_dict[resname].id = k
                 /\ residue' = Ref(chain, d)
                 /\ last'.raised = NoExc

C21_Step(resname, field, resseq, icode) ==
    LET k == ResidueKey(resname, field, resseq, icode)
        ch == chains[chain]
        ch2 == chains'[chain]
        sameNumber == {j \in DOMAIN ch.child_dict : j[2] = resseq}
    IN (/\ last'.op = "init_residue"
        /\ chain # NoChain
        /\ init_residue(resname, field, resseq, icode))
       => CASE k \in DOMAIN ch.child_dict ->
                 /\ WRedefined \in last'.warnings
                 /\ C21_Resolved(ch, ch2, k, k, resname)
            [] k \notin DOMAIN ch.child_dict /\ sameNumber # {} ->
                 /\ WRedefined \notin last'.warnings
                 /\ k \notin DOMAIN ch2.child_dict
                 /\ C21_Resolved(ch, ch2, FirstOfNumber(ch, resseq), k, resname)
            [] OTHER ->
                 /\ WRedefined \notin last'.warnings
                 /\ DOMAIN ch2.child_dict = DOMAIN ch.child_dict \cup {k}
                 /\ ch2.child_dict[k].kind = "Residue"

C21_DuplicateHetPath ==
    [][\A resname \in ResNames, field \in Fields,
          resseq \in ResSeqs, icode \in ICodes :
           C21_Step(resname, field, resseq, icode)]_vars

\* a begin_residue whose key the chain does not hold has failed on the
\* residue of its sequence number
C21_Witness ==
    /\ last.op = "init_residue"
    /\ last.raised.type = "PDBConstructionException"
    /\ chain # NoChain
    /\ <<last.raised.args[2], last.raised.args[3], last.raised.args[4]>>
           \notin DOMAIN chains[chain].child_dict
    /\ Len(chains[chain].child_list) = 2

----------------------------------------------------------------------------
(* C22: the group generalizes to N children.  A begin_residue that returns
   at a slot the chain held, with a name the slot did not hold, leaves one
   DisorderedResidue there whose children are the earlier ones, unchanged
   and in their order, followed by one for the new name, which is the
   selected one; also when the slot was found by its sequence number, and
   for the third child as for the second. *)
SlotKeys(e) == IF e.kind = "DisorderedResidue" THEN e.keys ELSE <<e.resname>>

C22_Step(resname, field, resseq, icode) ==
    LET ch == chains[chain]
        ch2 == chains'[chain]
        d == residue'.key
        old == ch.child_dict[d]
        new == ch2.child_dict[d]
    IN (/\ last'.op = "init_residue"
        /\ last'.raised = NoExc
        /\ chain # NoChain
        /\ residue'.st = "ref"
        /\ d \in DOMAIN ch.child_dict
        /\ resname \notin DOMAIN Nodes(old)
        /\ init_residue(resname, field, resseq, icode))
       => /\ new.kind = "DisorderedResidue"
          /\ Occurrences(ch2.child_list, d) = 1
          /\ new.keys = Append(SlotKeys(old), resname)
          /\ DOMAIN new.child_dict = DOMAIN Nodes(old) \cup {resname}
          /\ Cardinality(DOMAIN new.child_dict) = Len(SlotKeys(old)) + 1
          /\ \A n \in DOMAIN Nodes(old) : new.child_dict[n] = Nodes(old)[n]
          /\ new.child_dict[resname].kind = "Residue"
          /\ new.child_dict[resname].resname = resname
          /\ new.selected = resname

C22_GroupOfNChildren ==
    [][\A resname \in AllResNames, field \in AllFields,
          resseq \in ResSeqs, icode \in ICodes :
           C22_Step(resname, field, resseq, icode)]_vars

\* the third child has just been added, through the lookup by sequence
\* number, and is the selected one
C22_Witness ==
    /\ last.op = "init_residue"
    /\ residue.st = "ref"
    /\ LET g == chains[residue.chain].child_dict[residue.key]
       IN /\ g.kind = "DisorderedResidue"
          /\ Len(g.keys) = 3
          /\ g.selected = g.keys[3]
          /\ g.child_dict[g.keys[3]].id # g.id

----------------------------------------------------------------------------
(* C23: re-occurrence of a known alternate.  begin_residue at a slot that
   holds a DisorderedResidue with a child of the incoming name changes
   nothing in the model but the selection of that group, which becomes that
   child, and makes the group the active residue; an add_atom on a group
   then changes the selected child only and, when it returns, has put its
   atom there. *)
C23_ResidueStep(resname, field, resseq, icode) ==
    LET k == ResidueKey(resname, field, resseq, icode)
        ch == chains[chain]
        d == IF k \in DOMAIN ch.child_dict THEN k
             ELSE FirstOfNumber(ch, resseq)
        old == ch.child_dict[d]
    IN (/\ last'.op = "init_residue"
        /\ chain # NoChain
        /\ \E j \in DOMAIN ch.child_dict : j[2] = resseq
        /\ old.kind = "DisorderedResidue"
        /\ resname \in DOMAIN old.child_dict
        /\ init_residue(resname, field, resseq, icode))
       => /\ chains' = [chains EXCEPT
                 ![chain].child_dict[d].selected = resname]
          /\ model_list' = model_list
          /\ ResidueNodes(chains') = ResidueNodes(chains)
          /\ AllAtoms(chains') = AllAtoms(chains)
          /\ Effective(chains'[chain].child_dict[d]) = old.child_dict[resname]
          /\ residue' = Ref(chain, d)
          /\ last'.raised = NoExc

C23_AtomStep ==
    LET g == chains[residue.chain].child_dict[residue.key]
        g2 == chains'[residue.chain].child_dict[residue.key]
    IN (/\ last'.op = "init_atom"
        /\ residue.st = "ref"
        /\ g.kind = "DisorderedResidue")
       => /\ g2.kind = "DisorderedResidue"
          /\ g2.selected = g.selected
          /\ DOMAIN g2.child_dict = DOMAIN g.child_dict
          /\ \A n \in DOMAIN g.child_dict \ {g.selected} :
                 g2.child_dict[n] = g.child_dict[n]
          /\ last'.raised = NoExc
             => \E x \in AtomsOf(g2.child_dict[g.selected]) :
                    /\ x[1] = atom'.id
                    /\ x[2] = atom'.altloc
                    /\ x[3] = atom'.fullname

C23_KnownAlternateReselected ==
    [][/\ \A resname \in AllResNames, field \in AllFields,
             resseq \in ResSeqs, icode \in ICodes :
              C23_ResidueStep(resname, field, resseq, icode)
       /\ C23_AtomStep]_vars

\* the first child of a group was selected again and has been given an atom
\* that the second child does not hold
C23_Witness ==
    /\ last.op = "init_atom"
    /\ last.raised = NoExc
    /\ residue.st = "ref"
    /\ LET g == chains[residue.chain].child_dict[residue.key]
       IN /\ g.kind = "DisorderedResidue"
          /\ Len(g.keys) = 2
          /\ g.selected = g.keys[1]
          /\ AtomsOf(g.child_dict[g.keys[2]]) # {}
          /\ \E x \in AtomsOf(g.child_dict[g.keys[1]]) :
                 /\ x \notin AtomsOf(g.child_dict[g.keys[2]])
                 /\ x[2] = atom.altloc

----------------------------------------------------------------------------
(* C24: ownership transfer on group creation.  When a begin_residue replaces
   a plain Residue by a DisorderedResidue, the key is listed once and holds
   the group, and the old node, with its atoms, is the child of the group
   under its residue name.  In every state each Residue node of a chain,
   told by its id and name, is found at one place only: as one entry of the
   chain or as one child of one group. *)
Owners(ch, id, resname) ==
    {<<i, n>> \in (1..Len(ch.child_list)) \X AllResNames :
        LET e == ch.child_dict[ch.child_list[i]]
        IN /\ n \in DOMAIN Nodes(e)
           /\ Nodes(e)[n].id = id
           /\ Nodes(e)[n].resname = resname}

C24_OneOwner ==
    \A c \in DOMAIN chains :
        /\ \A i \in 1..Len(chains[c].child_list) :
               chains[c].child_list[i] \in DOMAIN chains[c].child_dict
        /\ \A x \in NodeIds(chains[c]) :
               Cardinality(Owners(chains[c], x[1], x[2])) = 1

C24_Transfer ==
    \A d \in DOMAIN chains[chain].child_dict :
        LET old == chains[chain].child_dict[d]
            new == chains'[chain].child_dict[d]
        IN (/\ old.kind = "Residue"
            /\ d \in DOMAIN chains'[chain].child_dict
            /\ new.kind = "DisorderedResidue")
           => /\ last'.op = "init_residue"
              /\ Occurrences(chains'[chain].child_list, d) = 1
              /\ old.resname \in DOMAIN new.child_dict
              /\ new.child_dict[old.resname] = old
              /\ AtomsOf(new.child_dict[old.resname]) = AtomsOf(old)
              /\ Owners(chains'[chain], old.id, old.resname)
                     = {<<Len(chains'[chain].child_list), old.resname>>}

C24_OwnershipTransfer ==
    [][/\ C24_OneOwner'
       /\ chain # NoChain /\ chain' = chain => C24_Transfer]_vars

\* a residue that holds an atom has just become a child of a new group, in
\* a chain that has a plain residue as well
C24_Witness ==
    /\ last.op = "init_residue"
    /\ residue.st = "ref"
    /\ PlainKeys(chains[chain]) # {}
    /\ LET g == chains[residue.chain].child_dict[residue.key]
       IN /\ g.kind = "DisorderedResidue"
          /\ Len(g.keys) = 2
          /\ g.selected = g.keys[2]
          /\ AtomsOf(g.child_dict[g.keys[1]]) # {}
          /\ AtomsOf(g.child_dict[g.keys[2]]) = {}

----------------------------------------------------------------------------
(* C25: the name-collision rule.  add_atom keys the incoming atom by its
   full spelling, and warns, exactly when the residue holds a child under
   the trimmed name whose full spelling is another one; the child it holds
   stays where it is under the trimmed name.  With the same spelling, or
   with the trimmed name unused, the incoming atom keeps the trimmed name as
   its key and no such warning is given. *)
C25_Step(fullname, altloc, occupancy) ==
    LET name == Strip(fullname)
        res == Effective(chains[residue.chain].child_dict[residue.key])
        res2 == Effective(chains'[residue.chain].child_dict[residue.key])
        differs == /\ name \in DOMAIN res.child_dict
                   /\ get_fullname(res.child_dict[name]) # fullname
    IN (/\ last'.op = "init_atom"
        /\ residue.st = "ref"
        /\ init_atom(name, fullname, altloc, occupancy))
       => /\ atom'.id = (IF differs THEN fullname ELSE name)
          /\ atom'.fullname = fullname
          /\ (WSpaces \in last'.warnings) <=> differs
          /\ differs =>
                /\ name \in DOMAIN res2.child_dict
                /\ res2.child_dict[name] = res.child_dict[name]
                /\ Occurrences(res2.child_list, name) = 1

C25_NameCollisionRule ==
    [][\A fullname \in AllFullNames, altloc \in AllAltLocs,
          occupancy \in Occupancies :
           C25_Step(fullname, altloc, occupancy)]_vars

\* a residue holding "CA" and a renamed ".CA ", and a further atom of the
\* first spelling: a duplicate that is not renamed
C25_Witness ==
    /\ last.op = "init_atom"
    /\ residue.st = "ref"
    /\ WSpaces \notin last.warnings
    /\ last.raised = ExcTwice("CA")
    /\ atom.id = "CA"
    /\ LET res == Effective(chains[residue.chain].child_dict[residue.key])
       IN /\ DOMAIN res.child_dict = {"CA", ".CA "}
          /\ res.child_dict["CA"].kind = "Atom"
          /\ res.child_dict["CA"].fullname = atom.fullname

----------------------------------------------------------------------------
(* C26: the recoverable conditions.  A begin_chain of a chain the model
   holds, a begin_residue of the name a plain Residue of the slot carries,
   an add_atom whose trimmed name is held under another full spelling, and
   an add_atom with a non-blank altloc whose key holds a plain Atom: each
   gives its warning in that event.  The first, second and fourth event
   raise nothing and have their effect: the chain is current again, the
   residue is the cursor again, the key holds a group of both atoms.  The
   third has its effect, the atom stored under its full spelling, and
   raises nothing, unless its altloc is blank and either the full spelling
   is a key of the residue already or the cursor is a DisorderedResidue:
   that event raises.  In no case is the cursor emptied. *)
C26_ChainStep ==
    (/\ last'.op = "init_chain"
     /\ chain' \in DOMAIN chains)
    => /\ WDiscontinuous \in last'.warnings
       /\ last'.raised = NoExc
       /\ chains' = chains /\ model_list' = model_list
       /\ residue' = residue

C26_ResidueStep(resname, field, resseq, icode) ==
    LET k == ResidueKey(resname, field, resseq, icode)
        ch == chains[chain]
        d == IF k \in DOMAIN ch.child_dict THEN k
             ELSE FirstOfNumber(ch, resseq)
    IN (/\ last'.op = "init_residue"
        /\ chain # NoChain
        /\ \E j \in DOMAIN ch.child_dict : j[2] = resseq
        /\ ch.child_dict[d].kind = "Residue"
        /\ ch.child_dict[d].resname = resname
        /\ init_residue(resname, field, resseq, icode))
       => /\ WSameName \in last'.warnings
          /\ last'.raised = NoExc
          /\ chains' = chains
          /\ residue' = Ref(chain, d)

C26_AtomStep(fullname, altloc, occupancy, always) ==
    LET name == Strip(fullname)
        e == chains[residue.chain].child_dict[residue.key]
        res == Effective(e)
        res2 == Effective(chains'[residue.chain].child_dict[residue.key])
        differs == /\ name \in DOMAIN res.child_dict
                   /\ get_fullname(res.child_dict[name]) # fullname
        key == IF differs THEN fullname ELSE name
        refused == /\ altloc = " "
                   /\ \/ fullname \in DOMAIN res.child_dict
                      \/ e.kind = "DisorderedResidue"
    IN (/\ last'.op = "init_atom"
        /\ residue.st = "ref"
        /\ init_atom(name, fullname, altloc, occupancy))
       => /\ residue' = residue
          /\ differs =>
                /\ WSpaces \in last'.warnings
                /\ IF always \/ ~refused
                   THEN /\ last'.raised = NoExc
                        /\ <<fullname, altloc, fullname, occupancy>>
                               \in AtomsOf(res2)
                   ELSE last'.raised # NoExc
          /\ (/\ altloc # " "
              /\ key \in DOMAIN res.child_dict
              /\ res.child_dict[key].kind = "Atom") =>
                /\ WBlankAltloc \in last'.warnings
                /\ last'.raised = NoExc
                /\ res2.child_dict[key].kind = "DisorderedAtom"
                /\ DOMAIN res2.child_dict[key].child_dict
                       = {altloc, res.child_dict[key].altloc}
                /\ AtomsOf(res) \cup {<<key, altloc, fullname, occupancy>>}
                       = AtomsOf(res2)

C26_Step(always) ==
    /\ C26_ChainStep
    /\ \A resname \in ResNames, icode \in ICodes :
           C26_ResidueStep(resname, " ", 1, icode)
    /\ \A fullname \in AllFullNames, altloc \in AllAltLocs,
          occupancy \in Occupancies :
           C26_AtomStep(fullname, altloc, occupancy, always)

C26_RecoverableUnlessRefused == [][C26_Step(FALSE)]_vars

\* the claim as stated: the event of a disambiguated atom always completes
C26_RecoverableAlways == [][C26_Step(TRUE)]_vars

\* one add_atom that met two of the conditions, after a chain and a residue
\* that were declared again
C26_Witness ==
    /\ last.op = "init_atom"
    /\ last.raised = NoExc
    /\ last.warnings = {WSpaces, WBlankAltloc}
    /\ residue.st = "ref"
    /\ LET res == Effective(chains[residue.chain].child_dict[residue.key])
       IN /\ DOMAIN res.child_dict = {"CA", atom.fullname}
          /\ res.child_dict[atom.fullname].kind = "DisorderedAtom"
          /\ res.child_dict["CA"].kind = "Atom"

----------------------------------------------------------------------------
(* C27: the frame of end_chain.  The event changes nothing but the selected
   child of DisorderedResidue entries of the current chain: the chains of
   the model, their order, every other chain, the residue order of the
   current chain, its plain residues, the children of its groups and all
   atoms stay as they were, and so do the cursors.  With no chain started
   the event changes nothing at all. *)
C27_SameButSelection(old, new) ==
    IF old.kind = "DisorderedResidue"
    THEN /\ new.kind = "DisorderedResidue"
         /\ new.selected \in DOMAIN new.child_dict
         /\ [new EXCEPT !.selected = old.selected] = old
    ELSE new = old

C27_Frame ==
    /\ model_list' = model_list
    /\ chain' = chain /\ residue' = residue /\ atom' = atom
    /\ last'.raised = NoExc
    /\ DOMAIN chains' = DOMAIN chains
    /\ chain = NoChain => chains' = chains
    /\ \A c \in DOMAIN chains :
           IF c # chain THEN chains'[c] = chains[c]
           ELSE /\ chains'[c].child_list = chains[c].child_list
                /\ chains'[c].cls = chains[c].cls
                /\ chains'[c].id = chains[c].id
                /\ DOMAIN chains'[c].child_dict = DOMAIN chains[c].child_dict
                /\ \A k \in DOMAIN chains[c].child_dict :
                       C27_SameButSelection(chains[c].child_dict[k],
                                            chains'[c].child_dict[k])
    /\ ResidueNodes(chains') = ResidueNodes(chains)
    /\ AllAtoms(chains') = AllAtoms(chains)

C27_EndChainFrame ==
    [][last'.op = "finish_chain_construction" => C27_Frame]_vars

\* end_chain of a chain with a group, whose first child took the last atom,
\* while another chain of the model holds a residue as well
C27_Witness ==
    /\ last.op = "finish_chain_construction"
    /\ chain # NoChain
    /\ atom # NoAtom
    /\ \E c \in DOMAIN chains : c # chain /\ PlainKeys(chains[c]) # {}
    /\ \E k \in GroupKeys(chains[chain]) :
           LET g == chains[chain].child_dict[k]
           IN /\ Len(g.keys) = 2
              /\ g.selected = g.keys[2]
              /\ \E x \in AtomsOf(g.child_dict[g.keys[1]]) :
                     x[2] = atom.altloc /\ x[3] = atom.fullname
              /\ AtomsOf(g.child_dict[g.keys[2]]) = {}

----------------------------------------------------------------------------
(* C28: the child end_chain selects.  In every group of the chain end_chain
   runs on, the child selected afterwards is the last recorded one among the
   children that carry the group's id, whichever child was selected before
   the event: the last recorded child of all when every child carries the
   id, and the only child carrying it when there is one. *)
C28_Step ==
    \A k \in GroupKeys(chains[chain]) :
        LET g == chains[chain].child_dict[k]
            g2 == chains'[chain].child_dict[k]
            m == Matching(g)
            top == CHOOSE i \in m : \A j \in m : j <= i
        IN /\ m # {}
           /\ g2.keys = g.keys
           /\ g2.selected = g.keys[top]
           /\ m = 1..Len(g.keys) => g2.selected = g.keys[Len(g.keys)]
           /\ \A n \in DOMAIN g.child_dict :
                  (/\ Cardinality(m) = 1
                   /\ g.child_dict[n].id = g.id) => g2.selected = n

C28_LastMatchingChild ==
    [][(/\ last'.op = "finish_chain_construction"
        /\ chain # NoChain) => C28_Step]_vars

\* end_chain has run on a point mutation of two children, the first of which
\* had been selected again and given an atom
C28_Witness ==
    /\ last.op = "finish_chain_construction"
    /\ chain # NoChain
    /\ \E k \in GroupKeys(chains[chain]) :
           LET g == chains[chain].child_dict[k]
           IN /\ Len(g.keys) = 2
              /\ Matching(g) = {1, 2}
              /\ g.selected = g.keys[2]
              /\ \E x \in AtomsOf(g.child_dict[g.keys[1]]) : x[2] = " "

----------------------------------------------------------------------------
(* C29: the residue cursor after begin_residue.  After the event the cursor
   is empty, and then the event has raised, or it refers to a key that the
   current chain lists and holds, whose entry is a plain Residue of the
   incoming name or a DisorderedResidue whose selected child has the
   incoming name. *)
C29_Step(resname, field, resseq, icode) ==
    (/\ last'.op = "init_residue"
     /\ init_residue(resname, field, resseq, icode))
    => IF residue'.st # "ref"
       THEN /\ last'.raised # NoExc
            /\ residue' = None \/ (residue' = Unset /\ chain = NoChain)
       ELSE /\ chain' # NoChain
            /\ residue'.chain = chain'
            /\ residue'.key \in DOMAIN chains'[chain'].child_dict
            /\ Occurrences(chains'[chain'].child_list, residue'.key) = 1
            /\ LET e == chains'[chain'].child_dict[residue'.key]
               IN /\ e.kind \in {"Residue", "DisorderedResidue"}
                  /\ e.kind = "Residue" => e.resname = resname
                  /\ e.kind = "DisorderedResidue" =>
                         /\ e.selected \in DOMAIN e.child_dict
                         /\ e.selected = resname
                         /\ e.child_dict[e.selected].resname = resname

C29_CursorAfterBeginResidue ==
    [][\A resname \in ResNames, field \in Fields, resseq \in ResSeqs,
          icode \in ICodes :
           C29_Step(resname, field, resseq, icode)]_vars

\* the cursor at a group listed under another key than the event's, beside
\* a plain residue of the chain
C29_Witness ==
    /\ last.op = "init_residue"
    /\ last.raised = NoExc
    /\ residue.st = "ref"
    /\ residue.chain = chain
    /\ PlainKeys(chains[chain]) # {}
    /\ LET e == chains[chain].child_dict[residue.key]
       IN /\ e.kind = "DisorderedResidue"
          /\ e.child_dict[e.selected].id # residue.key

----------------------------------------------------------------------------
(* C30: the residue order of the chain under begin_residue on an occupied
   slot.  When the event replaces a plain Residue by a new DisorderedResidue,
   the group's key is the last of the chain's order and the other keys keep
   their relative order; every other outcome of the event on an occupied
   slot (the residue used again, a child added to a group, a child selected
   again, the event refused) leaves the order of the chain as it was. *)
C30_Others(list, d) == SelectSeq(list, LAMBDA k : k # d)

C30_Step(resname, field, resseq, icode) ==
    LET k == ResidueKey(resname, field, resseq, icode)
        ch == chains[chain]
        ch2 == chains'[chain]
        d == IF k \in DOMAIN ch.child_dict THEN k
             ELSE FirstOfNumber(ch, resseq)
    IN (/\ last'.op = "init_residue"
        /\ chain # NoChain
        /\ \E j \in DOMAIN ch.child_dict : j[2] = resseq
        /\ init_residue(resname, field, resseq, icode))
       => /\ DOMAIN ch2.child_dict = DOMAIN ch.child_dict
          /\ IF /\ ch.child_dict[d].kind = "Residue"
                /\ ch2.child_dict[d].kind = "DisorderedResidue"
             THEN /\ ch2.child_list # <<>>
                  /\ ch2.child_list[Len(ch2.child_list)] = d
                  /\ Len(ch2.child_list) = Len(ch.child_list)
                  /\ C30_Others(ch2.child_list, d)
                         = C30_Others(ch.child_list, d)
                  /\ ch2.child_list = Append(ListRemove(ch.child_list, d), d)
             ELSE ch2.child_list = ch.child_list

C30_ResidueOrder ==
    [][\A resname \in ResNames, field \in Fields, resseq \in ResSeqs,
          icode \in ICodes :
           C30_Step(resname, field, resseq, icode)]_vars

\* a new group, the cursor, is the last entry of its chain while the residue
\* of the higher number comes before it
C30_Witness ==
    /\ last.op = "init_residue"
    /\ last.raised = NoExc
    /\ residue.st = "ref"
    /\ residue.chain = chain
    /\ LET ch == chains[chain]
       IN /\ Len(ch.child_list) = 2
          /\ ch.child_list[2] = residue.key
          /\ ch.child_list[1][2] > ch.child_list[2][2]
          /\ ch.child_dict[ch.child_list[1]].kind = "Residue"
          /\ ch.child_dict[ch.child_list[2]].kind = "DisorderedResidue"
          /\ AtomsOf(ch.child_dict[ch.child_list[2]].child_dict[
                 ch.child_dict[ch.child_list[2]].selected]) = {}

----------------------------------------------------------------------------
(* C31: the frame of begin_chain and the cursor it leaves behind.
   begin_chain sets the current chain and, for an id the model does not
   hold, appends one chain without residues; the chains the model held, the
   residue cursor and the atom cursor stay as they were.  An add_atom that
   follows it directly therefore works on the residue that was the cursor
   before: only that residue's entry can change, in the chain it belongs
   to, and the atom is stored there; with the cursor emptied by a refused
   begin_residue the event changes nothing and raises nothing.  (With no
   begin_residue ever issued the event changes nothing and raises.) *)
C31_ChainStep ==
    last'.op = "init_chain"
    => /\ residue' = residue
       /\ atom' = atom
       /\ chain' \in DOMAIN chains'
       /\ \A c \in DOMAIN chains : c \in DOMAIN chains' /\ chains'[c] = chains[c]
       /\ IF chain' \in DOMAIN chains
          THEN chains' = chains /\ model_list' = model_list
          ELSE /\ DOMAIN chains' = DOMAIN chains \cup {chain'}
               /\ chains'[chain'].child_list = <<>>
               /\ DOMAIN chains'[chain'].child_dict = {}
               /\ model_list' = Append(model_list, chain')

C31_AtomStep(fullname, altloc, occupancy) ==
    (/\ last.op = "init_chain"
     /\ last'.op = "init_atom"
     /\ init_atom(Strip(fullname), fullname, altloc, occupancy))
    => /\ residue' = residue
       /\ chain' = chain
       /\ model_list' = model_list
       /\ DOMAIN chains' = DOMAIN chains
       /\ CASE residue.st = "none" ->
                 /\ chains' = chains
                 /\ atom' = atom
                 /\ last'.raised = NoExc
            [] residue.st = "unset" ->
                 /\ chains' = chains
                 /\ atom' = atom
                 /\ last'.raised = ExcAttribute("residue")
            [] OTHER ->
                 LET rc == residue.chain
                     rk == residue.key
                 IN /\ \A c \in DOMAIN chains \ {rc} : chains'[c] = chains[c]
                    /\ chains'[rc].child_list = chains[rc].child_list
                    /\ DOMAIN chains'[rc].child_dict
                           = DOMAIN chains[rc].child_dict
                    /\ \A k \in DOMAIN chains[rc].child_dict \ {rk} :
                           chains'[rc].child_dict[k] = chains[rc].child_dict[k]
                    /\ atom'.fullname = fullname /\ atom'.altloc = altloc
                    /\ AllAtoms(chains) \subseteq AllAtoms(chains')
                    /\ last'.raised = NoExc =>
                          \E x \in AtomsOf(Effective(
                                       chains'[rc].child_dict[rk])) :
                              /\ x[1] = atom'.id
                              /\ x[2] = altloc
                              /\ x[3] = fullname

C31_BeginChainKeepsCursor ==
    [][/\ C31_ChainStep
       /\ \A fullname \in FullNames, altloc \in AltLocs,
             occupancy \in Occupancies :
              C31_AtomStep(fullname, altloc, occupancy)]_vars

\* an atom stored in the residue of another chain than the current one,
\* which has no residue
C31_Witness ==
    /\ last.op = "init_atom"
    /\ last.raised = NoExc
    /\ residue.st = "ref"
    /\ chain # NoChain
    /\ residue.chain # chain
    /\ chains[chain].child_list = <<>>
    /\ atom # NoAtom
    /\ \E x \in AtomsOf(Effective(
                   chains[residue.chain].child_dict[residue.key])) :
           x[1] = atom.id /\ x[2] = atom.altloc

----------------------------------------------------------------------------
(* C32: residues that hold disorder are marked.  In every state, and so
   after every add_atom, each Residue that holds a DisorderedAtom under one
   of its keys has its disordered flag set. *)
C32_HoldsGroup(res) ==
    \E k \in DOMAIN res.child_dict : res.child_dict[k].kind = "DisorderedAtom"

C32_DisorderMarked ==
    \A res \in ResidueNodes(chains) : C32_HoldsGroup(res) => res.disordered = 1

\* add_atom has made a DisorderedAtom in the selected child of a group, whose
\* other child holds none and is not marked
C32_Witness ==
    /\ last.op = "init_atom"
    /\ last.raised = NoExc
    /\ residue.st = "ref"
    /\ atom # NoAtom
    /\ LET g == chains[residue.chain].child_dict[residue.key]
       IN /\ g.kind = "DisorderedResidue"
          /\ C32_HoldsGroup(g.child_dict[g.selected])
          /\ g.child_dict[g.selected].disordered = 1
          /\ atom.altloc # " "
          /\ \E n \in DOMAIN g.child_dict :
                 /\ ~C32_HoldsGroup(g.child_dict[n])
                 /\ g.child_dict[n].disordered = 0

====
